---- MODULE Spec2Model ----
(***************************************************************************)
(* Timeline state and interaction model of the AvaLIBRAS authoring tool    *)
(* (src/base.js): the Overlay Store with its derived projection and its    *)
(* overlayUpdated listeners, the Visual State Manager, the selection/trim  *)
(* controller of VideoEditor, the overlay drag/resize controller and the   *)
(* question operations.  Each subsystem has its own specification over the *)
(* shared variables; the variables of the other subsystems stay at their   *)
(* initial values.                                                         *)
(***************************************************************************)
EXTENDS Integers, Sequences, FiniteSets, TLC

VARIABLES
    overlays,        \* OverlayState.overlays: sequence of store records
    projection,      \* currentProject.overlays: the derived projection
    nextId,          \* the next id generateOverlayId() hands out
    segments,        \* the .overlay-segment elements of the overlays track
    projWriter,      \* history: who wrote the projection last ("none", "store", "ui")
    uiOp,            \* history: the last UI overlay action taken
    vsm,             \* VisualStateManager: state, dirtyFlags, flags, counters, the DOM
    vsmShadow,       \* history: vsm had applyState made no nested setState call
    vsmHist,         \* history of the last VisualStateManager operation
    ve,              \* VideoEditor: selection bounds, mode, timeline elements, cuts
    veHist,          \* history of the last VideoEditor step
    drag,            \* timelineState.dragState, the dragged segment and its store record
    dragOp,          \* history: the last step of the drag/resize controller
    qs,              \* the project's questions, the marker map being edited, the form
    qsHist,          \* history: the last question operation and how it ended
    listeners,       \* OverlayState.eventListeners.get('overlayUpdated')
    delivery,        \* history: how the last overlayUpdated event was delivered
    sel,             \* timelineState.selectedOverlay and the overlay elements' markers
    selHist,         \* history: the last overlay selection operation
    fmt,             \* history: the last time formatted and the text returned
    deleted,         \* history: the ids of the overlays the user deleted
    preview,         \* OverlayManager.currentOverlay and its debounce timer
    confirmation     \* OverlayManager.processOverlay: where one confirmation stands

eventVars == <<listeners, delivery>>

storeVars == <<overlays, projection, nextId, segments, projWriter, uiOp, eventVars>>

vsmVars == <<vsm, vsmShadow, vsmHist>>

veVars == <<ve, veHist>>

dragVars == <<drag, dragOp>>

questionVars == <<qs, qsHist>>

selVars == <<sel, selHist>>

vars == <<storeVars, vsmVars, veVars, dragVars, questionVars, selVars, fmt, deleted, preview, confirmation>>

\* what the overlay store and the overlay UI code never touch
outsideUi == <<vsmVars, veVars, dragVars, questionVars, selVars, fmt, preview, confirmation>>

\* what the overlay operations other than the user's delete never touch
outsideOverlays == <<outsideUi, deleted>>

\* what an overlay operation that emits no event never touches
outsideStore == <<outsideOverlays, eventVars>>

\* what the VisualStateManager never touches
outsideVsm ==
    <<storeVars, veVars, dragVars, questionVars, selVars, fmt, deleted, preview, confirmation>>

\* what the modelled VideoEditor steps never touch
outsideVe ==
    <<storeVars, vsmVars, dragVars, questionVars, selVars, fmt, deleted, preview, confirmation>>

\* what the modelled drag/resize steps never touch
outsideDrag ==
    <<storeVars, vsmVars, veVars, questionVars, selVars, fmt, deleted, preview, confirmation>>

\* what the question operations never touch
outsideQuestion ==
    <<storeVars, vsmVars, veVars, dragVars, selVars, fmt, deleted, preview, confirmation>>

\* what the overlay selection operations never touch
outsideSel ==
    <<storeVars, vsmVars, veVars, dragVars, questionVars, fmt, deleted, preview, confirmation>>

\* what the live preview's subscriber never touches
outsidePreview ==
    <<segments, uiOp, vsmVars, veVars, dragVars, questionVars, selVars, fmt, deleted, confirmation>>

\* what the steps of one overlay confirmation never touch
outsideCanvas ==
    <<eventVars, vsmVars, veVars, dragVars, questionVars, selVars, fmt, deleted, preview>>

\* what the time formatters never touch
outsideFormat ==
    <<storeVars, vsmVars, veVars, dragVars, questionVars, selVars, deleted, preview, confirmation>>

----------------------------------------------------------------------------
(* Bounds of the store model *)

MaxOverlays == 2
MaxIds == 3
MaxTime == 2

NoId == 0

Ids == 1..MaxIds
Times == 0..MaxTime
Durations == 1..MaxTime

----------------------------------------------------------------------------
(* Overlay Store: src/base.js 17-196 *)

\* the object syncWithProject builds for one store record (base.js 145-154)
overlayData(o) ==
    [id |-> o.id, label |-> o.label, start |-> o.startTime, duration |-> o.duration]

\* currentOverlaysMap.get(id): with duplicate keys the Map keeps the last entry
LastIdx(proj, id, n) ==
    CHOOSE k \in 1..n : proj[k].id = id /\ \A j \in (k+1)..n : proj[j].id # id

RECURSIVE syncLoop(_, _, _, _, _)
\* the forEach of syncWithProject (base.js 143-164): update in place or push
syncLoop(st, i, proj, keys, n0) ==
    IF i > Len(st) THEN [proj |-> proj, keys |-> keys]
    ELSE LET o == st[i] IN
         IF o.id \in keys
         THEN syncLoop(st, i + 1,
                       [proj EXCEPT ![LastIdx(proj, o.id, n0)] = overlayData(o)],
                       keys \ {o.id}, n0)
         ELSE syncLoop(st, i + 1, Append(proj, overlayData(o)), keys, n0)

\* a sync that forgets to drop the entries of removed ids
syncWithProjectNoRemoval(st, proj) ==
    syncLoop(st, 1, proj, {proj[k].id : k \in 1..Len(proj)}, Len(proj)).proj

\* OverlayState.syncWithProject (base.js 131-174)
syncWithProject(st, proj) ==
    LET r == syncLoop(st, 1, proj, {proj[k].id : k \in 1..Len(proj)}, Len(proj))
    IN SelectSeq(r.proj, LAMBDA e : e.id \notin r.keys)

\* OverlayState.addOverlay (base.js 64-76); every caller passes a freshly
\* generated id (base.js 8650, part_000 596-601)
addOverlay(label, startTime, duration) ==
    /\ Len(overlays) < MaxOverlays
    /\ nextId <= MaxIds
    /\ LET o == [id |-> nextId, label |-> label,
                 startTime |-> startTime, duration |-> duration]
           st == Append(overlays, o)
       IN /\ overlays' = st
          /\ projection' = syncWithProject(st, projection)
    /\ nextId' = nextId + 1
    /\ projWriter' = "store"

\* OverlayState.removeOverlay (base.js 78-82)
removeOverlay(id) ==
    /\ LET st == SelectSeq(overlays, LAMBDA o : o.id # id)
       IN /\ overlays' = st
          /\ projection' = syncWithProject(st, projection)
    /\ projWriter' = "store"
    /\ UNCHANGED nextId

\* Object.assign(overlay, data) for the fields a caller passes
mergeOverlay(o, data) ==
    [f \in DOMAIN o |-> IF f \in DOMAIN data THEN data[f] ELSE o[f]]

\* the store after updateOverlay(id, data) (base.js 86-89): first match only
updatedStore(st, id, data) ==
    IF \E k \in 1..Len(st) : st[k].id = id
    THEN LET k == CHOOSE j \in 1..Len(st) :
                     st[j].id = id /\ \A h \in 1..(j-1) : st[h].id # id
         IN [st EXCEPT ![k] = mergeOverlay(st[k], data)]
    ELSE st

\* the callbacks the model subscribes to overlayUpdated, named by what their
\* code does with the event: return, throw, unsubscribe itself, subscribe
\* the callback "plain"
Handlers == {"plain", "failing", "once", "chained"}

MaxListeners == 3

\* OverlayState.addEventListener (base.js 30-36)
addEventListener(ls, h) == Append(ls, h)

\* OverlayState.removeEventListener (base.js 39-47): indexOf and splice
removeEventListener(ls, h) ==
    IF \E k \in 1..Len(ls) : ls[k] = h
    THEN LET k == CHOOSE j \in 1..Len(ls) : ls[j] = h /\ \A i \in 1..(j-1) : ls[i] # h
         IN SubSeq(ls, 1, k - 1) \o SubSeq(ls, k + 1, Len(ls))
    ELSE ls

\* the listener array after the callback h has run
callback(ls, h) ==
    CASE h = "once" -> removeEventListener(ls, h)
      [] h = "chained" -> addEventListener(ls, "plain")
      [] OTHER -> ls

RECURSIVE forEachListener(_, _, _)
\* the forEach of emit (base.js 53-59): the indices below the length the array
\* had when the loop began are visited in order, an index the array no longer
\* has is passed over; a callback's exception is caught and logged
forEachListener(d, i, len) ==
    IF i > len THEN d
    ELSE IF i > Len(d.listeners) THEN forEachListener(d, i + 1, len)
    ELSE LET h == d.listeners[i] IN
         forEachListener([d EXCEPT !.listeners = callback(@, h),
                                   !.calls[h] = @ + 1,
                                   !.threw = @ \/ h = "failing"],
                         i + 1, len)

\* how often the callback h is in the listener array
subscriptions(ls, h) == Cardinality({k \in 1..Len(ls) : ls[k] = h})

\* OverlayState.emit('overlayUpdated', ...) (base.js 50-61)
emit(ls) ==
    LET d == forEachListener([listeners |-> ls, calls |-> [h \in Handlers |-> 0],
                              threw |-> FALSE], 1, Len(ls))
    IN [listeners |-> d.listeners,
        delivery |-> [op |-> "update",
                      missed |-> {h \in Handlers : d.calls[h] < subscriptions(ls, h)},
                      extra |-> {h \in Handlers : d.calls[h] > subscriptions(ls, h)},
                      threw |-> d.threw,
                      escaped |-> FALSE]]

NoDelivery ==
    [op |-> "none", missed |-> {}, extra |-> {}, threw |-> FALSE, escaped |-> FALSE]

\* OverlayState.updateOverlay (base.js 84-112): unknown id is a logged no-op
updateOverlay(id, data) ==
    IF \E k \in 1..Len(overlays) : overlays[k].id = id
    THEN /\ overlays' = updatedStore(overlays, id, data)
         /\ projection' = syncWithProject(updatedStore(overlays, id, data), projection)
         /\ projWriter' = "store"
         /\ Len(emit(listeners).listeners) <= MaxListeners
         /\ listeners' = emit(listeners).listeners
         /\ delivery' = emit(listeners).delivery
         /\ UNCHANGED nextId
    ELSE UNCHANGED <<overlays, projection, projWriter, nextId, eventVars>>

\* the partial records the callers of updateOverlay pass
UpdateData ==
    [{"startTime"} -> Times] \cup [{"duration"} -> Durations]
      \cup {[startTime |-> t, duration |-> d] : t \in Times, d \in Durations}

\* storeOverlayData labels the record "Overlay <store length + 1>" (part_000 609)
AddOverlay ==
    /\ \E t \in Times, d \in Durations : addOverlay(Len(overlays) + 1, t, d)
    /\ UNCHANGED <<segments, uiOp, outsideStore>>

RemoveOverlay ==
    /\ \E id \in Ids : removeOverlay(id)
    /\ UNCHANGED <<segments, uiOp, outsideStore>>

UpdateOverlay ==
    /\ \E id \in Ids, data \in UpdateData : updateOverlay(id, data)
    /\ UNCHANGED <<segments, uiOp, outsideOverlays>>

\* OverlayState.clear (base.js 186-195): the records are dropped, and
\* syncWithProject is not called
Clear ==
    /\ overlays' = <<>>
    /\ UNCHANGED <<projection, projWriter, nextId, segments, uiOp, outsideStore>>

\* a caller subscribes a callback it has not subscribed (part_000 1449)
Subscribe ==
    /\ Len(listeners) < MaxListeners
    /\ \E h \in Handlers :
         /\ \A k \in 1..Len(listeners) : listeners[k] # h
         /\ listeners' = addEventListener(listeners, h)
    /\ delivery' = NoDelivery
    /\ UNCHANGED <<overlays, projection, projWriter, nextId, segments, uiOp, outsideOverlays>>

\* a caller unsubscribes one of the subscribed callbacks (base.js 39-47)
Unsubscribe ==
    /\ \E k \in 1..Len(listeners) :
         listeners' = removeEventListener(listeners, listeners[k])
    /\ delivery' = NoDelivery
    /\ UNCHANGED <<overlays, projection, projWriter, nextId, segments, uiOp, outsideOverlays>>

StoreInit ==
    /\ listeners = <<>>
    /\ delivery = NoDelivery
    /\ overlays = <<>>
    /\ projection = <<>>
    /\ nextId = 1
    /\ segments = <<>>
    /\ projWriter = "none"
    /\ uiOp = "none"
    /\ deleted = {}

StoreNext == AddOverlay \/ RemoveOverlay \/ UpdateOverlay

\* the store with its project-level clear
ProjectNext == AddOverlay \/ RemoveOverlay \/ UpdateOverlay \/ Clear

\* the store with callers that subscribe and unsubscribe
EventsNext == AddOverlay \/ UpdateOverlay \/ Subscribe \/ Unsubscribe

----------------------------------------------------------------------------
(* UI actions on overlays: src/base.js 3989-4060, 5093-5107, 5263-5298,    *)
(* src/unnamed/part_000 591-672                                            *)

\* renderOverlays (base.js 3989-4060): one segment per store record
renderOverlays(st) ==
    [k \in 1..Len(st) |->
        [id |-> st[k].id, label |-> st[k].label,
         start |-> st[k].startTime, duration |-> st[k].duration]]

\* OverlayManager.storeOverlayData (part_000 591-672) on the store, the
\* projection and the id generator: the store add with its sync, then a
\* second, direct push of the same id onto currentProject.overlays
storeOverlayData(s, t, d) ==
    LET o == [id |-> s.nextId, label |-> Len(s.overlays) + 1,
              startTime |-> t, duration |-> d]
        st == Append(s.overlays, o)
        synced == syncWithProject(st, s.projection)
    IN [overlays |-> st,
        projection |-> Append(synced,
                          [id |-> s.nextId, label |-> Len(synced) + 1,
                           start |-> t, duration |-> d]),
        nextId |-> s.nextId + 1]

\* how processOverlayWithCanvas ends: the canvas overlay applied within its
\* three attempts, or activateFallbackMode after the third failure
CanvasOutcomes == {"applied", "fallback"}

\* OverlayManager.activateFallbackMode (part_000 421-450)
activateFallbackMode(s, t, d) == storeOverlayData(s, t, d)

\* OverlayManager.processOverlayWithCanvas (part_000 370-416): it returns
\* normally on both outcomes
processOverlayWithCanvas(s, t, d, canvas) ==
    IF canvas = "fallback" THEN activateFallbackMode(s, t, d) ELSE s

\* OverlayManager.processOverlay (part_000 239-314), the modal's confirm
\* button (part_000 222-224), with valid times: processOverlayWithCanvas,
\* storeOverlayData, renderOverlays
ProcessOverlay ==
    /\ \E t \in Times, d \in Durations, canvas \in CanvasOutcomes :
         LET s0 == [overlays |-> overlays, projection |-> projection, nextId |-> nextId]
             s1 == storeOverlayData(processOverlayWithCanvas(s0, t, d, canvas), t, d)
         IN /\ Len(s1.overlays) <= MaxOverlays
            /\ s1.nextId <= MaxIds + 1
            /\ overlays' = s1.overlays
            /\ projection' = s1.projection
            /\ nextId' = s1.nextId
            /\ segments' = renderOverlays(s1.overlays)
    /\ projWriter' = "ui"
    /\ uiOp' = "create"
    /\ UNCHANGED outsideStore

\* the index findIndex(o => o.label === label) returns, 0 for -1
findIndexByLabel(proj, label) ==
    IF \E k \in 1..Len(proj) : proj[k].label = label
    THEN CHOOSE k \in 1..Len(proj) :
            proj[k].label = label /\ \A j \in 1..(k-1) : proj[j].label # label
    ELSE 0

\* the sequence without its k-th element (splice(k, 1), element.remove())
RemoveAt(seq, k) ==
    [j \in 1..(Len(seq) - 1) |-> IF j < k THEN seq[j] ELSE seq[j + 1]]

\* deleteOverlay (base.js 5093-5107): splices the projection by label and removes
\* the element; OverlayState is not called
deleteOverlay(k) ==
    LET idx == findIndexByLabel(projection, segments[k].label) IN
    IF idx # 0
    THEN /\ projection' = RemoveAt(projection, idx)
         /\ segments' = RemoveAt(segments, k)
         /\ projWriter' = "ui"
         /\ deleted' = deleted \cup {segments[k].id}
    ELSE UNCHANGED <<projection, segments, projWriter, deleted>>

DeleteOverlay ==
    /\ \E k \in 1..Len(segments) : deleteOverlay(k)
    /\ uiOp' = "delete"
    /\ UNCHANGED <<overlays, nextId, outsideUi, eventVars>>

\* saveTimelineState (base.js 5263-5298): rebuilds the projection from the
\* elements' data-* attributes, without ids
SaveTimelineState ==
    /\ projection' = [k \in 1..Len(segments) |->
                        [id |-> NoId, label |-> segments[k].label,
                         start |-> segments[k].start, duration |-> segments[k].duration]]
    /\ projWriter' = "ui"
    /\ uiOp' = "save"
    /\ UNCHANGED <<overlays, nextId, segments, outsideStore>>

\* a pointer move of a drag (base.js 4617-4655): the element's data-start and
\* the store's startTime, through OverlayState.updateOverlay
DragOverlay ==
    /\ \E k \in 1..Len(segments), t \in Times :
         /\ segments' = [segments EXCEPT ![k].start = t]
         /\ updateOverlay(segments[k].id, [startTime |-> t])
    /\ uiOp' = "edit"
    /\ UNCHANGED outsideOverlays

UiNext ==
    \/ ProcessOverlay
    \/ DeleteOverlay
    \/ SaveTimelineState
    \/ DragOverlay

----------------------------------------------------------------------------
(* Visual State Manager: src/base.js 427-1411                              *)

MaxSkipped == 2

AllSections == {"playhead", "progress", "selection", "timeline", "body",
                "markers", "overlays"}
\* the sections detectChanges always flags (base.js 738-746); the other
\* sections are diffed with hasObjectChanged (base.js 698-736)
MapSections == {"markers", "overlays"}

\* the values a section can hold; the code only compares them with !==
Vals == {"v0", "v1"}
\* the sections the modelled callers send
PayloadSections == {"playhead", "markers"}
Payloads == UNION {[D -> Vals] : D \in SUBSET PayloadSections}

\* VisualStateManager.hasObjectChanged (base.js 752-762)
hasObjectChanged(current, incoming) == current # incoming

\* the sections of a payload detectChanges reports as changed
changedSections(v, u) ==
    {s \in DOMAIN u : s \in MapSections \/ hasObjectChanged(v.state[s], u[s])}

\* VisualStateManager.detectChanges (base.js 694-749): the flag of every
\* section present in the payload is overwritten
detectChanges(v, u) ==
    [v EXCEPT !.dirtyFlags =
        [s \in AllSections |->
            IF s \in DOMAIN u THEN s \in changedSections(v, u)
            ELSE v.dirtyFlags[s]]]

\* VisualStateManager.updateState (base.js 788-814)
updateState(v, u) ==
    [v EXCEPT !.state =
        [s \in AllSections |-> IF s \in DOMAIN u THEN u[s] ELSE v.state[s]]]

\* VisualStateManager.scheduleBatchUpdate (base.js 765-778), the request part
scheduleBatchUpdate(v) ==
    IF v.batchUpdatePending THEN v
    ELSE [v EXCEPT !.batchUpdatePending = TRUE, !.framePending = TRUE]

\* VisualStateManager.resetDirtyFlags (base.js 781-785)
resetDirtyFlags(v) ==
    [v EXCEPT !.dirtyFlags = [s \in AllSections |-> FALSE]]

\* the per-section apply functions (base.js 832-852): every dirty section's
\* value is written to the DOM
applyDirtySections(v) ==
    LET dirty == {s \in AllSections : v.dirtyFlags[s]} IN
    [v EXCEPT !.dom = [s \in AllSections |-> IF s \in dirty THEN v.state[s] ELSE v.dom[s]],
              !.owed = v.owed \ dirty,
              !.rendered = v.rendered \/ dirty # {}]

\* the order in which applyState calls the apply functions (base.js 832-852)
SectionOrder == <<"playhead", "progress", "selection", "timeline", "body",
                  "markers", "overlays">>

\* applyState up to an apply function that raises: the dirty sections before
\* it are written, resetDirtyFlags is not reached
applyUntilFault(v) ==
    LET k == CHOOSE i \in 1..Len(SectionOrder) : SectionOrder[i] = v.fault
        done == {SectionOrder[i] : i \in 1..(k - 1)} \cap {s \in AllSections : v.dirtyFlags[s]}
    IN [v EXCEPT !.dom = [s \in AllSections |-> IF s \in done THEN v.state[s] ELSE v.dom[s]],
                 !.owed = v.owed \ done,
                 !.raised = TRUE]

RECURSIVE setState(_, _, _, _)
RECURSIVE applyState(_, _)
RECURSIVE nestedCalls(_, _, _)

\* a setState without the _isApplyingState check of base.js 665-668
setStateNoGuard(v, u, batch, nested) ==
    LET d == detectChanges(v, u) IN
    IF changedSections(v, u) = {}
    THEN [d EXCEPT !.skippedUpdates = v.skippedUpdates + 1]
    ELSE LET w == updateState(d, u) IN
         IF batch
         THEN scheduleBatchUpdate([w EXCEPT !.owed = w.owed \cup changedSections(v, u)])
         ELSE applyState(w, nested)

\* the setState calls made synchronously from inside a running applyState
nestedCalls(v, nested, i) ==
    IF i > Len(nested) THEN v
    ELSE nestedCalls(setState(v, nested[i].u, nested[i].batch, <<>>), nested, i + 1)

\* an applyState whose flag is released on the normal path only
applyStateNoFinally(v, nested) ==
    IF v.isApplyingState THEN v
    ELSE LET v1 == [v EXCEPT !.isApplyingState = TRUE] IN
         IF v1.fault # "none" /\ v1.dirtyFlags[v1.fault]
         THEN applyUntilFault(v1)
         ELSE LET v2 == nestedCalls(applyDirtySections(v1), nested, 1)
                  v3 == resetDirtyFlags(v2)
              IN [v3 EXCEPT !.isApplyingState = FALSE]

\* VisualStateManager.applyState (base.js 817-860): try / finally around the
\* apply functions
applyState(v, nested) ==
    IF v.isApplyingState THEN v
    ELSE LET v1 == [v EXCEPT !.isApplyingState = TRUE] IN
         IF v1.fault # "none" /\ v1.dirtyFlags[v1.fault]
         THEN [applyUntilFault(v1) EXCEPT !.isApplyingState = FALSE]
         ELSE LET v2 == nestedCalls(applyDirtySections(v1), nested, 1)
                  v3 == resetDirtyFlags(v2)
              IN [v3 EXCEPT !.isApplyingState = FALSE]

\* VisualStateManager.setState (base.js 663-691)
setState(v, u, batch, nested) ==
    IF v.isApplyingState THEN v
    ELSE LET d == detectChanges(v, u) IN
         IF changedSections(v, u) = {}
         THEN [d EXCEPT !.skippedUpdates = v.skippedUpdates + 1]
         ELSE LET w == updateState(d, u) IN
              IF batch
              THEN scheduleBatchUpdate([w EXCEPT !.owed = w.owed \cup changedSections(v, u)])
              ELSE applyState(w, nested)

\* the requestAnimationFrame callback of scheduleBatchUpdate (base.js
\* 772-777): an applyState that raises leaves batchUpdatePending set
frameCallback(v, nested) ==
    LET w == applyState([v EXCEPT !.framePending = FALSE], nested) IN
    IF w.raised THEN w ELSE [w EXCEPT !.batchUpdatePending = FALSE]

\* at most one setState call is made from inside one applyState
NestedChoices ==
    {<<>>} \cup {<<[u |-> u, batch |-> b]>> :
                    u \in UNION {[{s} -> Vals] : s \in PayloadSections}, b \in BOOLEAN}

\* the apply function that raises during an operation, if any
FaultChoices == {"none"} \cup PayloadSections

\* what happens inside the applyState of one operation, if it runs one: a
\* nested setState call, or an apply function that raises before any nested
\* call is made
ApplyChoices(applies) ==
    IF applies
    THEN {[nested |-> n, fault |-> "none"] : n \in NestedChoices}
         \cup {[nested |-> <<>>, fault |-> f] : f \in FaultChoices \ {"none"}}
    ELSE {[nested |-> <<>>, fault |-> "none"]}

\* what the last setState did
outcomeOf(v, w) ==
    IF v.isApplyingState THEN "rejected"
    ELSE IF w.raised THEN "raised"
    ELSE IF w.rendered THEN "applied"
    ELSE IF w.batchUpdatePending /\ ~v.batchUpdatePending THEN "scheduled"
    ELSE IF w.skippedUpdates = v.skippedUpdates + 1 /\ w.dom = v.dom THEN "skipped"
    ELSE "other"

SetState ==
    /\ UNCHANGED outsideVsm
    /\ \E u \in Payloads, batch \in BOOLEAN :
       \E io \in ApplyChoices(~batch /\ changedSections(vsm, u) # {}) :
        LET nested == io.nested
            fault == io.fault
            v == [vsm EXCEPT !.rendered = FALSE, !.raised = FALSE, !.fault = fault]
            w == setState(v, u, batch, nested)
        IN /\ w.skippedUpdates <= MaxSkipped
           /\ fault # "none" => w.raised
           /\ vsm' = [w EXCEPT !.fault = "none"]
           /\ vsmShadow' = [setState(v, u, batch, <<>>) EXCEPT !.fault = "none"]
           /\ vsmHist' = [op |-> "setState",
                          nested |-> nested # <<>> /\ w.rendered,
                          afterNested |-> vsmHist.nested,
                          afterRaised |-> vsm.raised,
                          sections |-> DOMAIN u,
                          repeated |-> /\ vsmHist.op = "setState"
                                       /\ vsmHist.sections = DOMAIN u
                                       /\ \A s \in DOMAIN u : vsm.state[s] = u[s],
                          changed |-> changedSections(v, u),
                          outcome |-> outcomeOf(v, w)]

AnimationFrame ==
    /\ vsm.framePending
    /\ UNCHANGED outsideVsm
    /\ \E io \in ApplyChoices(TRUE) :
        LET nested == io.nested
            fault == io.fault
            v == [vsm EXCEPT !.rendered = FALSE, !.raised = FALSE, !.fault = fault]
            w == frameCallback(v, nested)
        IN /\ fault # "none" => w.raised
           /\ vsm' = [w EXCEPT !.fault = "none"]
           /\ vsmShadow' = [frameCallback(v, <<>>) EXCEPT !.fault = "none"]
           /\ vsmHist' = [op |-> "frame",
                          nested |-> nested # <<>> /\ w.rendered,
                          afterNested |-> vsmHist.nested,
                          afterRaised |-> vsm.raised,
                          sections |-> {},
                          repeated |-> FALSE,
                          changed |-> {},
                          outcome |-> IF w.rendered THEN "applied" ELSE "other"]

VsmInitial ==
    [state |-> [s \in AllSections |-> "v0"],
     dom |-> [s \in AllSections |-> "v0"],
     dirtyFlags |-> [s \in AllSections |-> FALSE],
     batchUpdatePending |-> FALSE,
     isApplyingState |-> FALSE,
     skippedUpdates |-> 0,
     owed |-> {},
     rendered |-> FALSE,
     framePending |-> FALSE,
     fault |-> "none",
     raised |-> FALSE]

VsmInit ==
    /\ vsm = VsmInitial
    /\ vsmShadow = VsmInitial
    /\ vsmHist = [op |-> "none", nested |-> FALSE, afterNested |-> FALSE,
                  afterRaised |-> FALSE, sections |-> {},
                  repeated |-> FALSE, changed |-> {}, outcome |-> "other"]

VsmNext == SetState \/ AnimationFrame

----------------------------------------------------------------------------
(* Selection / trim controller: VideoEditor, src/base.js 1613-3167         *)
(* Times are in tenths of a second.  The selection-area visuals that the   *)
(* handlers send to the VisualStateManager are not part of this record,    *)
(* and a key or click that its handler ignores (a seek click, Escape or    *)
(* Enter outside selection mode) is not a step.  Of the selection area     *)
(* the record keeps what updateUI last sent: whether the area is displayed *)
(* and which handles are visible.                                          *)

VideoDuration == 6
MaxCuts == 2

\* minSelectionDuration = 0.5 (base.js 2185)
MinSelectionDuration == 5

\* 0.1 s, the gap a handle drag keeps between the bounds (base.js 2045, 2049)
HandleGap == 1

\* JavaScript null and NaN among the integer times; a body drag can make a
\* bound negative, so they lie below every time
Null == -100
NaN == -200

\* ToNumber: null converts to 0
Num(x) == IF x = Null THEN 0 ELSE x
jsLess(a, b) == a # NaN /\ b # NaN /\ Num(a) < Num(b)
jsMinus(a, b) == IF a = NaN \/ b = NaN THEN NaN ELSE Num(a) - Num(b)
MathMax(a, b) ==
    IF a = NaN \/ b = NaN THEN NaN
    ELSE IF Num(a) >= Num(b) THEN Num(a) ELSE Num(b)
MathMin(a, b) ==
    IF a = NaN \/ b = NaN THEN NaN
    ELSE IF Num(a) <= Num(b) THEN Num(a) ELSE Num(b)
\* x ? ... : ... on a time: null, 0 and NaN are falsy
truthy(x) == x # Null /\ x # NaN /\ x # 0

\* the inline style of a timeline element
InlineStyle(d, o, v, p) == [display |-> d, opacity |-> o, visibility |-> v, pointerEvents |-> p]
\* the fields playheadOriginal* / progressOriginal* before the first hide
Unsaved == [display |-> "undefined", opacity |-> "undefined", visibility |-> "undefined"]

\* x || ''
orEmpty(x) == IF x = "undefined" THEN "" ELSE x

\* hidePlayheadCompletely / hideProgressCompletely (base.js 2636-2682): the
\* current style is saved as the original, then the element is hidden
hideCompletely(e, el, orig) ==
    [e EXCEPT ![orig] = [display |-> e[el].display, opacity |-> e[el].opacity,
                         visibility |-> e[el].visibility],
              ![el] = InlineStyle("none", "0", "hidden", "none")]

\* showPlayheadAgain / showProgressAgain (base.js 2684-2718)
showAgain(e, el, orig) ==
    [e EXCEPT ![el] = InlineStyle(orEmpty(e[orig].display), orEmpty(e[orig].opacity),
                                  orEmpty(e[orig].visibility), "auto")]

\* removePlayheadDragListeners (base.js 2722-2729)
removePlayheadDragListeners(e) ==
    [e EXCEPT !.dragListener = FALSE, !.playheadMouseDownHandlerRemoved = TRUE]

\* restorePlayheadDragListeners (base.js 2731-2738)
restorePlayheadDragListeners(e) ==
    IF e.playheadMouseDownHandlerRemoved
    THEN [e EXCEPT !.dragListener = TRUE, !.playheadMouseDownHandlerRemoved = FALSE]
    ELSE e

\* the two hide calls of setSelectionMode(true) and of cut()
hideTimelineElements(e) ==
    hideCompletely(removePlayheadDragListeners(hideCompletely(e, "playhead", "playheadOriginal")),
                   "progress", "progressOriginal")

\* the two show calls of setSelectionMode(false) and of onloadedmetadata
showTimelineElements(e) ==
    showAgain(restorePlayheadDragListeners(showAgain(e, "playhead", "playheadOriginal")),
              "progress", "progressOriginal")

\* VideoEditor.setSelectionMode (base.js 2610-2632)
setSelectionMode(e, isActive) ==
    LET f == [e EXCEPT !.isSelectionModeActive = isActive] IN
    IF isActive THEN hideTimelineElements(f) ELSE showTimelineElements(f)

\* the selection payload of a VisualStateManager.setState call
SelectionVisual(d, s, n) == [display |-> d, startHandleVisible |-> s, endHandleVisible |-> n]

\* VideoEditor.updateUI (base.js 2066-2143): nothing without a duration; the
\* logging of startTime.toFixed raises on null before anything is sent
updateUI(e) ==
    IF e.duration = NaN \/ e.duration = 0 \/ e.startTime = Null THEN e
    ELSE IF e.endTime = Null
    THEN [e EXCEPT !.selection = SelectionVisual(TRUE, TRUE, FALSE)]
    ELSE LET areHandlesVisible == jsLess(0, jsMinus(MathMax(e.startTime, e.endTime),
                                                    MathMin(e.startTime, e.endTime)))
         IN [e EXCEPT !.selection = SelectionVisual(TRUE, areHandlesVisible, areHandlesVisible)]

\* VideoEditor.validateSelection (base.js 2168-2192)
validateSelection(e) ==
    IF e.startTime = Null \/ e.endTime = Null THEN FALSE
    ELSE IF ~jsLess(e.startTime, e.endTime) /\ e.startTime # NaN /\ e.endTime # NaN THEN FALSE
    ELSE IF jsLess(e.startTime, 0) \/ jsLess(e.duration, e.endTime) THEN FALSE
    ELSE IF jsLess(jsMinus(e.endTime, e.startTime), MinSelectionDuration) THEN FALSE
    ELSE TRUE

\* whether the bounds a trim request carries are the ones C6 allows
requestValid(e) ==
    /\ e.startTime >= 0
    /\ e.endTime >= 0
    /\ e.duration # NaN
    /\ e.startTime < e.endTime
    /\ e.endTime <= e.duration
    /\ e.endTime - e.startTime >= MinSelectionDuration

sentKind(e) == IF requestValid(e) THEN "valid" ELSE "invalid"

\* one step of the controller, with what the history records of it
veStep(e, op, sent) ==
    /\ ve' = e
    /\ veHist' = [op |-> op, sent |-> sent]
    /\ UNCHANGED outsideVe

\* a video of 100 s, in tenths of a second
LongDuration == 100 * 10

\* percentage * duration for a pointer at p percent of the track
atPercent(e, p) == (p * e.duration) \div 100

\* the pointer positions the model follows on the 100 s video
TrackPercents == {0, 20, 50, 100}

\* the times a click on the timeline can give: percentage * duration
clickTimes(e) ==
    IF e.duration = NaN THEN {NaN}
    ELSE IF e.duration = LongDuration THEN {atPercent(e, p) : p \in TrackPercents}
    ELSE 0..e.duration

\* the method the click detector's timer calls (base.js 2312-2325)
clickDetector(e, clicks) ==
    IF clicks = 2 THEN "performSelection"
    ELSE IF e.isSelectionModeActive THEN "markSelectionEnd"
    ELSE "seekToClickPosition"

\* VideoEditor.performSelection (base.js 1812-1841)
performSelection(e, t) ==
    IF e.duration = NaN \/ e.duration = 0 THEN e
    ELSE updateUI([setSelectionMode(e, TRUE) EXCEPT !.startTime = t, !.endTime = Null])

\* a markSelectionEnd that takes the earlier of the start and the click
markSelectionEndEarlier(e, t) ==
    IF ~e.isSelectionModeActive \/ e.startTime = Null THEN e
    ELSE [updateUI([e EXCEPT !.endTime = MathMin(e.startTime, t)]) EXCEPT !.interactive = TRUE]

\* VideoEditor.markSelectionEnd (base.js 1844-1868); makeHandlesInteractive
\* (base.js 1926-1958) gives both handles and, through setupSelectionMovement
\* (1961-2032), the selection area a mousedown listener
markSelectionEnd(e, t) ==
    IF ~e.isSelectionModeActive \/ e.startTime = Null THEN e
    ELSE [updateUI([e EXCEPT !.endTime = MathMax(e.startTime, t)]) EXCEPT !.interactive = TRUE]

\* the arguments of the trimVideo call of cut (base.js 3142-3146)
trimRequest(e) == [startTime |-> e.startTime, endTime |-> e.endTime]

\* history, kept in the behaviours that start with recordRequests on: the
\* request followed from its trimVideo call to its result is the one sent
\* while no other followed request is in flight
followRequest(e) ==
    IF e.recordRequests /\ e.followed = <<>>
    THEN [e EXCEPT !.followed = <<trimRequest(e)>>]
    ELSE e

\* the click detector's timer with two clicks (base.js 2312-2315):
\* VideoEditor.performSelection (base.js 1812-1841)
DoubleClick ==
    /\ ve.duration # NaN
    /\ ve.gesture = "none"
    /\ clickDetector(ve, 2) = "performSelection"
    /\ \E t \in clickTimes(ve) : veStep(performSelection(ve, t), "performSelection", "none")

\* the click detector's timer with one click in selection mode (base.js
\* 2316-2320): VideoEditor.markSelectionEnd (base.js 1844-1868)
Click ==
    /\ clickDetector(ve, 1) = "markSelectionEnd"
    /\ ve.startTime # Null
    /\ ve.gesture = "none"
    /\ \E t \in clickTimes(ve) : veStep(markSelectionEnd(ve, t), "markSelectionEnd", "none")

\* mousedown on a visible selection handle (base.js 1946-1950):
\* startHandleAdjustment attaches its document listeners (base.js 2062-2063)
HandleDown ==
    /\ ve.interactive
    /\ ve.gesture = "none"
    /\ \/ /\ ve.selection.startHandleVisible
          /\ veStep([ve EXCEPT !.gesture = "start"], "handleDown", "none")
       \/ /\ ve.selection.endHandleVisible
          /\ veStep([ve EXCEPT !.gesture = "end"], "handleDown", "none")

\* mousedown on the displayed selection area (base.js 1965-2024), the pointer
\* at the selection's start: startOffsetTime is 0, duration is captured
BodyDown ==
    /\ ve.interactive
    /\ ve.gesture = "none"
    /\ ve.selection.display
    /\ ve.duration # NaN
    /\ ve.startTime # NaN
    /\ veStep([ve EXCEPT !.gesture = "body",
                         !.grabDuration = jsMinus(ve.endTime, ve.startTime)],
              "bodyDown", "none")

\* dragHandler of startHandleAdjustment (base.js 2037-2054)
dragHandler(e, type, time) ==
    IF type = "start"
    THEN LET minEndTime == IF truthy(e.endTime) THEN e.endTime - HandleGap
                           ELSE jsMinus(time, -HandleGap)
         IN updateUI([e EXCEPT !.startTime = MathMin(time, minEndTime)])
    ELSE LET maxStartTime == IF truthy(e.startTime) THEN e.startTime + HandleGap
                             ELSE jsMinus(time, HandleGap)
         IN updateUI([e EXCEPT !.endTime = MathMax(time, maxStartTime)])

\* moveHandler of setupSelectionMovement (base.js 1983-2005)
moveHandler(e, time) ==
    LET newStartTime == time
        newEndTime == jsMinus(newStartTime, jsMinus(0, e.grabDuration))
    IN IF ~jsLess(newStartTime, 0) /\ newStartTime # NaN
          /\ ~jsLess(e.duration, newEndTime) /\ newEndTime # NaN /\ e.duration # NaN
       THEN updateUI([e EXCEPT !.startTime = newStartTime, !.endTime = newEndTime])
       ELSE e

\* a mousemove while a gesture's document listeners are attached
PointerMove ==
    /\ ve.gesture # "none"
    /\ \E t \in clickTimes(ve) :
         IF ve.gesture = "body"
         THEN veStep(moveHandler(ve, t), "pointerMove", "none")
         ELSE veStep(dragHandler(ve, ve.gesture, t), "pointerMove", "none")

\* mouseup: the gesture's stopHandler removes its document listeners
\* (base.js 2007-2020, 2056-2060)
PointerUp ==
    /\ ve.gesture # "none"
    /\ veStep([ve EXCEPT !.gesture = "none", !.grabDuration = 0, !.cancelled = FALSE],
              "pointerUp", "none")

\* the method the keydown handler calls for a key pressed outside an input
\* field (base.js 2978-3006); isSelecting is never set
keyboardHandler(e, key) ==
    IF key = "Escape" /\ e.isSelectionModeActive THEN "cancelSelection"
    ELSE IF key = "Enter" /\ e.isSelectionModeActive THEN "cut"
    ELSE IF key = "Delete" /\ e.startTime # Null /\ e.endTime # Null THEN "clearSelection"
    ELSE "none"

\* a cancelSelection that resets the bounds and stays in selection mode
cancelSelectionKeepingMode(e) ==
    [e EXCEPT !.startTime = 0, !.endTime = 0,
              !.selection = SelectionVisual(FALSE, FALSE, FALSE)]

\* VideoEditor.cancelSelection (base.js 3011-3039)
cancelSelection(e) ==
    IF ~e.isSelectionModeActive THEN e
    ELSE setSelectionMode([e EXCEPT !.startTime = 0, !.endTime = 0,
                                    !.selection = SelectionVisual(FALSE, FALSE, FALSE)], FALSE)

\* Escape in selection mode (base.js 2983-2991): cancelSelection (3011-3039);
\* the removeEventListener calls of 3017-3018 name freshly bound functions
\* and detach nothing
Escape ==
    /\ keyboardHandler(ve, "Escape") = "cancelSelection"
    /\ veStep(cancelSelection([ve EXCEPT !.cancelled = ve.gesture # "none"]),
              "cancelSelection", "none")

\* Delete with both bounds set (base.js 3000-3005): clearSelection (3048-3070)
Delete ==
    /\ keyboardHandler(ve, "Delete") = "clearSelection"
    /\ veStep(updateUI([ve EXCEPT !.startTime = Null, !.endTime = Null,
                                  !.selection = SelectionVisual(FALSE, FALSE, FALSE)]),
              "clearSelection", "none")

\* the cut button (base.js 6750-6758) or Enter in selection mode (2993-2998):
\* VideoEditor.cut up to its first suspension (base.js 3101-3141)
Cut ==
    /\ ve.blobCuts + ve.trimCuts < MaxCuts
    /\ IF ~validateSelection(ve)
       THEN veStep(ve, "cutRejected", "none")
       ELSE LET e == hideTimelineElements(ve) IN
            IF e.source = "blob"
            THEN veStep([e EXCEPT !.blobCuts = @ + 1], "cut", "none")
            ELSE veStep(followRequest([e EXCEPT !.trimCuts = @ + 1]), "cut", sentKind(e))

\* cut resumed after getVideoBlob / arrayBuffer / saveTempFile (base.js
\* 3116-3141): it gives up, or calls trimVideo with the bounds as they are now
BlobResume ==
    /\ ve.blobCuts > 0
    /\ \/ veStep([ve EXCEPT !.blobCuts = @ - 1], "blobFailed", "none")
       \/ veStep(followRequest([ve EXCEPT !.blobCuts = @ - 1, !.trimCuts = @ + 1]),
                 "trimSent", sentKind(ve))

\* a failure handler that also leaves selection mode, as cancelSelection does
trimFailedCancelling(e) ==
    setSelectionMode([e EXCEPT !.trimCuts = @ - 1, !.startTime = 0, !.endTime = 0], FALSE)

\* the catch block of cut (base.js 3162-3165), reached by a rejected
\* trimVideo call or by the throw of base.js 3160: it logs and notifies
trimFailed(e) ==
    [e EXCEPT !.trimCuts = @ - 1]

\* cut resumed with the result of one of the trimVideo calls in flight
\* (base.js 3142-3165, part_000 2184-2275): failure only notifies; success
\* calls loadProcessedVideo (base.js 2242-2276), which sets the player's src
\* and waits for the metadata
TrimResult ==
    /\ ve.trimCuts > 0
    /\ \E e \in {[ve EXCEPT !.followed = <<>>]}
               \cup {w \in {ve} : ve.trimCuts > Len(ve.followed)} :
         \/ veStep(trimFailed(e), "trimFailed", "none")
         \/ veStep([e EXCEPT !.trimCuts = @ - 1, !.duration = NaN, !.metadataPending = TRUE],
                   "trimSucceeded", "none")

\* the durations of the trimmed video the model follows
TrimmedDurations == {MinSelectionDuration, VideoDuration}

\* the onloadedmetadata handler of loadProcessedVideo (base.js 2252-2270)
LoadedMetadata ==
    /\ ve.metadataPending
    /\ \E d \in TrimmedDurations :
         veStep(showTimelineElements([ve EXCEPT !.metadataPending = FALSE, !.duration = d,
                                                !.startTime = 0, !.endTime = d]),
                "trimLoaded", "none")

\* the editor with a video loaded: the constructor (base.js 1614-1620),
\* setupPlayheadDragging (2349-2377), updateProjectUI (5550-5553)
VeInitial(source) ==
    [startTime |-> 0, endTime |-> 0, isSelectionModeActive |-> FALSE,
     duration |-> VideoDuration,
     playhead |-> InlineStyle("block", "", "", ""),
     playheadOriginal |-> Unsaved,
     progress |-> InlineStyle("", "", "", ""),
     progressOriginal |-> Unsaved,
     dragListener |-> TRUE, playheadMouseDownHandlerRemoved |-> FALSE,
     source |-> source, blobCuts |-> 0, trimCuts |-> 0, recordRequests |-> FALSE, followed |-> <<>>,
     metadataPending |-> FALSE,
     selection |-> SelectionVisual(FALSE, FALSE, FALSE),
     interactive |-> FALSE, gesture |-> "none", grabDuration |-> 0, cancelled |-> FALSE]

\* currentVideoURL is a file URL with a known path, or a blob URL (base.js 1527)
VeInit ==
    /\ \E source \in {"path", "blob"} : ve = VeInitial(source)
    /\ veHist = [op |-> "none", sent |-> "none"]

\* the editor with the 100 s video loaded
VeLongInit ==
    /\ \E source \in {"path", "blob"} :
         ve = [VeInitial(source) EXCEPT !.duration = LongDuration, !.recordRequests = TRUE]
    /\ veHist = [op |-> "none", sent |-> "none"]

VeNext ==
    \/ DoubleClick
    \/ Click
    \/ HandleDown
    \/ BodyDown
    \/ PointerMove
    \/ PointerUp
    \/ Escape
    \/ Delete
    \/ Cut
    \/ BlobResume
    \/ TrimResult
    \/ LoadedMetadata

----------------------------------------------------------------------------
(* Overlay drag/resize controller: src/base.js 4394-4494, 4546-4736,       *)
(* 4942-5017.  Positions and widths are percentages of the track.          *)

\* videoPlayer.duration when it is not available (base.js 4633, 4673)
FallbackDuration == 100

\* the widest segment the model follows
MaxWidth == 150

\* videoPlayer.duration as the handlers read it: NaN while no video is
\* loaded, else the length of the loaded video
PlayerDurations == {NaN, 2 * FallbackDuration}

\* videoPlayer && videoPlayer.duration ? videoPlayer.duration : 100
\* (base.js 4037, 4632-4633, 4672-4673)
playerDuration(d) ==
    IF truthy(d.videoDuration) THEN d.videoDuration ELSE FallbackDuration

\* (percent / 100) * duration
toTime(d, percent) == (percent * playerDuration(d)) \div 100

\* the pointer deltas of a gesture, in percent of the track width
Deltas == {-100, -50, 50, 100}

\* left and width of the segments renderOverlays puts on the track
InitialGeometry == {<<0, 50>>, <<50, 50>>}

InteractionTypes == {"move", "resize-left", "resize-right"}

Min2(a, b) == IF a <= b THEN a ELSE b
Max2(a, b) == IF a >= b THEN a ELSE b

\* the new left of a move (base.js 4624)
movedLeft(d, delta) ==
    Max2(0, Min2(100, d.initialLeft + delta))

\* a move that writes the new time to the record's duration
moveOverlayWritingDuration(d, delta) ==
    LET newPosition == movedLeft(d, delta)
        newTime == toTime(d, newPosition)
    IN [d EXCEPT !.left = newPosition,
                 !.dataStart = newTime,
                 !.stored = mergeOverlay(d.stored, [duration |-> newTime])]

\* the overlay branch of handleAdvancedMouseMove for a move (base.js 4622-4656)
moveOverlay(d, delta) ==
    LET newPosition == movedLeft(d, delta)
        newTime == toTime(d, newPosition)
    IN [d EXCEPT !.left = newPosition,
                 !.dataStart = newTime,
                 !.stored = mergeOverlay(d.stored, [startTime |-> newTime, start |-> newTime])]

\* the new width of a resize-right (base.js 4697)
resizedWidth(d, delta) ==
    Max2(1, Min2(d.initialWidth + delta, 100 - d.initialLeft))

\* handleOverlayResize (base.js 4665-4736)
handleOverlayResize(d, resizeType, delta) ==
    LET newLeft == IF resizeType = "resize-left"
                   THEN Max2(0, Min2(d.initialLeft + delta, d.initialLeft + d.initialWidth - 1))
                   ELSE d.initialLeft
        newWidth == IF resizeType = "resize-left"
                    THEN d.initialWidth - (newLeft - d.initialLeft)
                    ELSE resizedWidth(d, delta)
        newStartTime == toTime(d, newLeft)
        newEndTime == toTime(d, newLeft + newWidth)
        newDuration == newEndTime - newStartTime
    IN [d EXCEPT !.left = newLeft, !.width = newWidth,
                 !.dataStart = newStartTime, !.dataDuration = newDuration,
                 !.stored = mergeOverlay(d.stored,
                               [startTime |-> newStartTime, duration |-> newDuration,
                                start |-> newStartTime, end |-> newEndTime]),
                 !.indicators = TRUE]

\* endCurrentInteraction with resetDragState (base.js 4457-4511)
endCurrentInteraction(d) ==
    IF ~d.isDragging THEN d
    ELSE [d EXCEPT !.classes = {}, !.indicators = FALSE, !.isDragging = FALSE,
                   !.element = "null", !.isDraggingPlayhead = FALSE,
                   !.initialLeft = 0, !.initialWidth = 0, !.isResizing = FALSE,
                   !.interactionType = "none", !.resizeHandle = "none"]

\* startOverlayInteraction (base.js 4394-4454), called on a segment's
\* mousedown (base.js 4171); a gesture still open is ended first
startOverlayInteraction(d, type) ==
    LET c == endCurrentInteraction(d) IN
    [c EXCEPT !.isDragging = TRUE, !.element = "segment", !.interactionType = type,
              !.initialLeft = d.left, !.initialWidth = d.width,
              !.isResizing = type # "move",
              !.resizeHandle = IF type = "resize-left" THEN "left"
                               ELSE IF type = "resize-right" THEN "right"
                               ELSE c.resizeHandle,
              !.classes = c.classes \cup {"dragging", IF type = "move" THEN "moving" ELSE "resizing"},
              !.before = [left |-> d.left, width |-> d.width, stored |-> d.stored]]

StartOverlayInteraction ==
    /\ \E type \in InteractionTypes : drag' = startOverlayInteraction(drag, type)
    /\ dragOp' = "start"
    /\ UNCHANGED outsideDrag

\* handleAdvancedMouseMove on an overlay segment (base.js 4546-4658)
MouseMove ==
    /\ drag.isDragging
    /\ \E delta \in Deltas :
         IF drag.interactionType = "move"
         THEN drag' = moveOverlay(drag, delta) /\ dragOp' = "move"
         ELSE /\ handleOverlayResize(drag, drag.interactionType, delta).width <= MaxWidth
              /\ drag' = handleOverlayResize(drag, drag.interactionType, delta)
              /\ dragOp' = "resize"
    /\ UNCHANGED outsideDrag

\* a mouse-up that writes the start time the gesture began with
handleAdvancedMouseUpInitial(d) ==
    LET initialStart == toTime(d, d.initialLeft) IN
    [d EXCEPT !.isDragging = FALSE, !.element = "null",
              !.stored = mergeOverlay(d.stored, [startTime |-> initialStart, start |-> initialStart]),
              !.classes = d.classes \ {"dragging"}]

\* handleAdvancedMouseUp on an overlay segment (base.js 4942-5017): the final
\* write of data-start, then the drag state is cleared
handleAdvancedMouseUp(d) ==
    [d EXCEPT !.isDragging = FALSE, !.element = "null",
              !.stored = mergeOverlay(d.stored, [startTime |-> d.dataStart, start |-> d.dataStart]),
              !.classes = d.classes \ {"dragging"}]

\* TimelineEventDelegator.handleMouseUp (base.js 3483-3495): the drag-end
\* handler (base.js 3723-3725), then TimelineEventDelegator.resetDragState
\* (base.js 3536-3541)
delegatorMouseUp(d) ==
    [handleAdvancedMouseUp(d) EXCEPT !.interactionType = "none", !.resizeHandle = "none"]

\* mouseup on the document: the delegator's listener is there only if the
\* .timeline element existed when the script was evaluated (base.js
\* 3439-3448, 3685); handleAdvancedMouseUp is registered directly as well
\* (base.js 3817) and finds isDragging false after the delegator has run
MouseUp ==
    /\ drag.isDragging
    /\ \/ drag' = handleAdvancedMouseUp(drag)
       \/ drag' = delegatorMouseUp(drag)
    /\ dragOp' = "end"
    /\ UNCHANGED outsideDrag

\* handleTimelineKeydown with the Escape key during a gesture (base.js
\* 5414-5475): no branch handles the key
KeydownEscape ==
    /\ drag.isDragging
    /\ drag' = drag
    /\ dragOp' = "escape"
    /\ UNCHANGED outsideDrag

\* a segment as renderOverlays draws it (base.js 4048-4054), nothing dragged
DragInit ==
    /\ \E g \in InitialGeometry, videoDuration \in PlayerDurations :
         LET v == [videoDuration |-> videoDuration]
             rendered == [startTime |-> toTime(v, g[1]), duration |-> toTime(v, g[2])]
         IN drag = [isDragging |-> FALSE, interactionType |-> "none",
                    element |-> "null", isDraggingPlayhead |-> FALSE,
                    playhead |-> 0, threw |-> FALSE,
                    videoDuration |-> videoDuration,
                    initialLeft |-> 0, initialWidth |-> 0,
                    left |-> g[1], width |-> g[2],
                    dataStart |-> rendered.startTime, dataDuration |-> rendered.duration,
                    stored |-> rendered,
                    isResizing |-> FALSE, resizeHandle |-> "none",
                    classes |-> {}, indicators |-> FALSE,
                    before |-> [left |-> g[1], width |-> g[2], stored |-> rendered]]
    /\ dragOp = "none"

DragNext == StartOverlayInteraction \/ MouseMove \/ MouseUp \/ KeydownEscape

\* the pointer deltas of a playhead drag, in percent of the timeline width
PlayheadDeltas == {-100, -50, -25, 25, 50, 100}

\* startDraggingAdvancedPlayhead (base.js 3846-3868), the delegator's
\* playhead-move handler (base.js 3709-3711)
startDraggingAdvancedPlayhead(d) ==
    [d EXCEPT !.isDragging = TRUE, !.isDraggingPlayhead = TRUE, !.initialLeft = d.playhead]

\* handleAdvancedMouseMove (base.js 4546-4658) with no overlay or marker
\* gesture open: nothing when no drag is recorded, the playhead branch, and
\* the TypeError of dragState.element.classList on a null element
handleAdvancedMouseMove(d, delta) ==
    IF ~d.isDragging THEN d
    ELSE IF d.isDraggingPlayhead
    THEN [d EXCEPT !.playhead = Max2(0, Min2(d.initialLeft + delta, 100))]
    ELSE IF d.element = "null"
    THEN [d EXCEPT !.threw = TRUE]
    ELSE d

\* the playhead branch of handleAdvancedMouseUp (base.js 4946-4961)
playheadMouseUp(d) ==
    IF d.isDragging /\ d.isDraggingPlayhead
    THEN [d EXCEPT !.isDraggingPlayhead = FALSE]
    ELSE d

\* TimelineEventDelegator.resetDragState (base.js 3536-3541)
resetDragState(d) ==
    [d EXCEPT !.isDragging = FALSE, !.element = "null",
              !.interactionType = "none", !.resizeHandle = "none"]

\* a release handled by the drag-end handler alone
delegatorPlayheadMouseUpNoReset(d) ==
    IF ~d.isDragging THEN d ELSE playheadMouseUp(d)

\* TimelineEventDelegator.handleMouseUp (base.js 3483-3495) at the end of a
\* playhead drag: the drag-end handler, then resetDragState.  The listener
\* was registered when the script was evaluated (base.js 3448, 3685),
\* before handleAdvancedMouseUp itself (base.js 3817, 5525), which runs
\* second and finds isDragging false
delegatorPlayheadMouseUp(d) ==
    IF ~d.isDragging THEN d ELSE resetDragState(playheadMouseUp(d))

\* mousedown on the playhead or its hit area
StartDraggingAdvancedPlayhead ==
    /\ ~drag.isDragging
    /\ drag' = startDraggingAdvancedPlayhead(drag)
    /\ dragOp' = "playheadStart"
    /\ UNCHANGED outsideDrag

\* mousemove on the document, with or without a drag
PlayheadMouseMove ==
    /\ \E delta \in PlayheadDeltas : drag' = handleAdvancedMouseMove(drag, delta)
    /\ dragOp' = IF ~drag.isDragging THEN "idleMove" ELSE "playheadMove"
    /\ UNCHANGED outsideDrag

\* mouseup on the document at the end of a playhead drag
PlayheadMouseUp ==
    /\ drag.isDragging
    /\ drag.isDraggingPlayhead
    /\ drag' = delegatorPlayheadMouseUp(drag)
    /\ dragOp' = "playheadEnd"
    /\ UNCHANGED outsideDrag

PlayheadNext == StartDraggingAdvancedPlayhead \/ PlayheadMouseMove \/ PlayheadMouseUp

----------------------------------------------------------------------------
(* Questions and their markers: QuestionManager (src/base.js 1536-1611),   *)
(* setMarker (5592-5623), saveCurrentQuestion (7030-7089), the question    *)
(* form (6031-6127) and confirmProjectCreation (6210-6235).  Alternatives  *)
(* A, B, ... are 1, 2, ...; a marker map gives each alternative its time   *)
(* or NoMarker.                                                            *)

MaxAlternatives == 2
MaxQuestions == 2

Alternatives == 1..MaxAlternatives
\* videoPlayer.currentTime when a marker is set
MarkerTimes == {0, 1}
\* markers[alt] === undefined
NoMarker == -1
\* activeQuestionIndex === -1
NoQuestion == 0

NoMarkers == [a \in Alternatives |-> NoMarker]

\* QuestionManager.validateQuestion (base.js 1593-1604): TRUE when it does
\* not throw
validateQuestion(q, totalAlternatives) ==
    /\ q.video
    /\ q.correctAnswer
    /\ \A a \in 1..totalAlternatives : q.markers[a] # NoMarker

\* clearQuestionForm (base.js 6031-6104)
clearQuestionForm(s) ==
    [s EXCEPT !.currentVideoURL = FALSE, !.currentMarkers = NoMarkers,
              !.activeQuestionIndex = NoQuestion, !.tempCorrectAnswer = FALSE]

\* one question operation, with what the history records of it
qsStep(s, op, outcome, reported) ==
    /\ qs' = s
    /\ qsHist' = [op |-> op, outcome |-> outcome, reported |-> reported]
    /\ UNCHANGED outsideQuestion

\* setMarker (base.js 5592-5623) from a marker button (base.js 5586): in
\* edit mode the question's own markers object is written before
\* QuestionManager.updateQuestion (base.js 1569-1581) validates it, and the
\* exception of validateQuestion leaves setMarker uncaught
SetMarker ==
    /\ qs.currentVideoURL
    /\ \E marker \in 1..qs.totalAlternatives, currentTime \in MarkerTimes :
         LET s1 == [qs EXCEPT !.currentMarkers[marker] = currentTime] IN
         IF qs.activeQuestionIndex = NoQuestion
         THEN qsStep(s1, "setMarker", "accepted", FALSE)
         ELSE LET s2 == [s1 EXCEPT !.questions[qs.activeQuestionIndex].markers[marker] = currentTime]
              IN IF validateQuestion(s2.questions[qs.activeQuestionIndex], qs.totalAlternatives)
                 THEN qsStep(s2, "setMarker", "accepted", FALSE)
                 ELSE qsStep(s2, "setMarker", "rejected", FALSE)

\* the checks saveCurrentQuestion makes itself (base.js 7033-7071)
saveChecksPass(s) ==
    /\ s.currentVideoURL
    /\ \E a \in Alternatives : s.currentMarkers[a] # NoMarker
    /\ \A a \in 1..s.totalAlternatives : s.currentMarkers[a] \notin {NoMarker, 0}
    /\ s.activeQuestionIndex = NoQuestion => s.tempCorrectAnswer

\* saveCurrentQuestion (base.js 7030-7089): every throw is caught and shown
\* as a notification; a save that went through clears the form
SaveCurrentQuestion ==
    LET updatedData == [video |-> qs.currentVideoURL, markers |-> qs.currentMarkers,
                        correctAnswer |-> TRUE]
    IN IF ~saveChecksPass(qs) \/ ~validateQuestion(updatedData, qs.totalAlternatives)
       THEN qsStep(qs, "saveCurrentQuestion", "rejected", TRUE)
       ELSE IF qs.activeQuestionIndex # NoQuestion
       THEN qsStep(clearQuestionForm([qs EXCEPT !.questions[qs.activeQuestionIndex] = updatedData]),
                   "saveCurrentQuestion", "accepted", TRUE)
       ELSE /\ Len(qs.questions) < MaxQuestions
            /\ qsStep(clearQuestionForm([qs EXCEPT !.questions = Append(@, updatedData)]),
                      "saveCurrentQuestion", "accepted", TRUE)

\* a question button of the grid (base.js 5693-5697): loadQuestionForEditing
\* (base.js 6106-6127)
SelectQuestion ==
    \E index \in 1..Len(qs.questions) :
        qsStep([clearQuestionForm(qs) EXCEPT !.activeQuestionIndex = index,
                                            !.currentVideoURL = qs.questions[index].video,
                                            !.currentMarkers = qs.questions[index].markers],
               "loadQuestionForEditing", "accepted", FALSE)

\* duplicateCurrentQuestion (base.js 7954-7977): a copy of the question being
\* edited is pushed onto the project's questions as it is
DuplicateCurrentQuestion ==
    /\ qs.activeQuestionIndex # NoQuestion
    /\ Len(qs.questions) < MaxQuestions
    /\ qsStep([qs EXCEPT !.questions = Append(@, qs.questions[qs.activeQuestionIndex])],
              "duplicateCurrentQuestion", "accepted", TRUE)

\* handleVideoUpload with a file chosen (base.js 6986-7005)
HandleVideoUpload ==
    /\ ~qs.currentVideoURL
    /\ qsStep([qs EXCEPT !.currentVideoURL = TRUE], "handleVideoUpload", "accepted", FALSE)

\* confirmGabarito while a new question is being created (base.js 6018-6028)
ConfirmGabarito ==
    /\ qs.activeQuestionIndex = NoQuestion
    /\ ~qs.tempCorrectAnswer
    /\ qsStep([qs EXCEPT !.tempCorrectAnswer = TRUE], "confirmGabarito", "accepted", TRUE)

\* confirmProjectCreation (base.js 6210-6235): the questions are kept
ConfirmProjectCreation ==
    \E alternativesCount \in Alternatives \ {qs.totalAlternatives} :
        qsStep([qs EXCEPT !.totalAlternatives = alternativesCount],
               "confirmProjectCreation", "accepted", TRUE)

\* currentProject as declared (base.js 1512-1528), with every alternative
\* the model follows
QuestionInit ==
    /\ qs = [totalAlternatives |-> MaxAlternatives, questions |-> <<>>,
             activeQuestionIndex |-> NoQuestion, currentMarkers |-> NoMarkers,
             currentVideoURL |-> FALSE, tempCorrectAnswer |-> FALSE]
    /\ qsHist = [op |-> "none", outcome |-> "none", reported |-> FALSE]

QuestionNext ==
    \/ SetMarker
    \/ SaveCurrentQuestion
    \/ SelectQuestion
    \/ DuplicateCurrentQuestion
    \/ HandleVideoUpload
    \/ ConfirmGabarito
    \/ ConfirmProjectCreation

----------------------------------------------------------------------------
(* Selected overlay: src/base.js 3939-3944, 3989-4003, 4314-4350,          *)
(* 4881-4939, 8395-8440                                                    *)

\* the overlay-segment elements the model follows; "null" is JS null
Elements == {"e1", "e2", "e3"}

\* syncSelectedOverlayStates without the pass that clears the other elements
syncSelectedOverlayStatesKeepingOthers(s, x) ==
    IF x = "null"
    THEN [s EXCEPT !.selectedOverlay = "null", !.selected = {}, !.keyboardActive = {}]
    ELSE [s EXCEPT !.selectedOverlay = x,
                   !.selected = @ \cup {x},
                   !.keyboardActive = @ \cup {x}]

\* syncSelectedOverlayStates (base.js 4914-4939); the querySelectorAll passes
\* reach the elements attached to the document
syncSelectedOverlayStates(s, x) ==
    IF x = "null"
    THEN [s EXCEPT !.selectedOverlay = "null", !.selected = {}, !.keyboardActive = {}]
    ELSE [s EXCEPT !.selectedOverlay = x,
                   !.selected = (@ \cup {x}) \cap {x},
                   !.keyboardActive = (@ \cup {x}) \cap {x}]

\* getValidatedSelectedOverlay (base.js 4881-4908): the element returned and
\* the state the accessor leaves
getValidatedSelectedOverlay(s) ==
    IF s.selectedOverlay # "null" /\ s.selectedOverlay \in s.attached
    THEN [returned |-> s.selectedOverlay, sel |-> s]
    ELSE IF s.selected # {}
    THEN LET x == CHOOSE e \in s.selected : TRUE IN
         [returned |-> x, sel |-> [s EXCEPT !.selectedOverlay = x]]
    ELSE IF s.keyboardActive # {}
    THEN LET x == CHOOSE e \in s.keyboardActive : TRUE IN
         [returned |-> x, sel |-> [s EXCEPT !.selectedOverlay = x, !.selected = @ \cup {x}]]
    ELSE [returned |-> "null", sel |-> s]

selStep(op, arg, cleared) == selHist' = [op |-> op, arg |-> arg, cleared |-> cleared]

\* selectOverlay (base.js 4329-4350): the sync, and a timer that marks the
\* element keyboard-active 100 ms later
SelectOverlay ==
    /\ \E x \in sel.attached :
         /\ sel' = [syncSelectedOverlayStates(sel, x) EXCEPT !.timers = @ \cup {x}]
         /\ selStep("select", x, {})
    /\ UNCHANGED outsideSel

\* the setTimeout callback of selectOverlay (base.js 4349-4351)
KeyboardActiveTimer ==
    /\ \E x \in sel.timers :
         /\ sel' = [sel EXCEPT !.timers = @ \ {x},
                               !.keyboardActive = @ \cup ({x} \cap sel.attached)]
         /\ selStep("timer", x, {})
    /\ UNCHANGED outsideSel

\* selectMarker (base.js 4314-4326): the overlays lose .selected only
SelectMarker ==
    /\ sel' = [sel EXCEPT !.selected = {}, !.selectedOverlay = "null"]
    /\ selStep("marker", "null", {})
    /\ UNCHANGED outsideSel

\* navigateElements (base.js 8395-8440) arriving at an overlay segment
NavigateElements ==
    /\ \E x \in sel.attached :
         /\ sel' = [sel EXCEPT !.selected = (@ \ {sel.selectedOverlay}) \cup {x},
                               !.selectedOverlay = x]
         /\ selStep("navigate", x, {})
    /\ UNCHANGED outsideSel

\* renderOverlays (base.js 3989-4060): every segment is removed and new
\* elements are created; timelineState.selectedOverlay is left as it is
RerenderOverlays ==
    /\ \E fresh \in SUBSET (Elements \ (sel.attached \cup {sel.selectedOverlay} \cup sel.timers)) :
         /\ fresh # {}
         /\ sel' = [sel EXCEPT !.attached = fresh, !.selected = {}, !.keyboardActive = {}]
    /\ selStep("render", "null", {})
    /\ UNCHANGED outsideSel

\* the Delete key on the selected overlay (base.js 3939-3944)
DeleteSelectedOverlay ==
    /\ sel.selectedOverlay # "null"
    /\ sel' = [sel EXCEPT !.attached = @ \ {sel.selectedOverlay},
                          !.selected = @ \ {sel.selectedOverlay},
                          !.keyboardActive = @ \ {sel.selectedOverlay},
                          !.selectedOverlay = "null"]
    /\ selStep("delete", "null", {})
    /\ UNCHANGED outsideSel

\* a call of syncSelectedOverlayStates with an attached element or null
SyncSelectedOverlayStates ==
    /\ \E x \in sel.attached \cup {"null"} :
         /\ sel' = syncSelectedOverlayStates(sel, x)
         /\ selStep("sync", x, (sel.selected \cup sel.keyboardActive) \ {x})
    /\ UNCHANGED outsideSel

\* a call of getValidatedSelectedOverlay
GetValidatedSelectedOverlay ==
    /\ sel' = getValidatedSelectedOverlay(sel).sel
    /\ selStep("get", getValidatedSelectedOverlay(sel).returned, {})
    /\ UNCHANGED outsideSel

SelInit ==
    /\ sel = [selectedOverlay |-> "null", attached |-> {"e1", "e2"},
              selected |-> {}, keyboardActive |-> {}, timers |-> {}]
    /\ selHist = [op |-> "none", arg |-> "null", cleared |-> {}]

SelNext ==
    \/ SelectOverlay
    \/ KeyboardActiveTimer
    \/ SelectMarker
    \/ NavigateElements
    \/ RerenderOverlays
    \/ DeleteSelectedOverlay
    \/ SyncSelectedOverlayStates
    \/ GetValidatedSelectedOverlay

----------------------------------------------------------------------------
(* Live preview: OverlayManager.currentOverlay (part_000 830-839, 617) and *)
(* its debounced overlayUpdated subscriber (part_000 1348-1455).  The      *)
(* start a config gives is config.startTime, or config.start when that is  *)
(* undefined (part_000 893-895).                                           *)

\* the config the timer callback builds from data.overlay (part_000
\* 1382-1387, 1429-1434)
configOf(o) == [startTime |-> o.startTime, duration |-> o.duration]

\* OverlayState.getOverlay(id), for an id of the store
getOverlay(st, id) == st[CHOOSE k \in 1..Len(st) : st[k].id = id]

\* applyRealTimeOverlay and storeOverlayData for an overlay of the store
\* (part_000 830-839, 615-618): currentOverlay with its config and overlayId
ApplyRealTimeOverlay ==
    /\ preview.bound = NoId
    /\ \E k \in 1..Len(overlays) :
         preview' = [preview EXCEPT !.overlayId = overlays[k].id,
                                    !.bound = overlays[k].id,
                                    !.config = configOf(overlays[k])]
    /\ UNCHANGED <<storeVars, outsidePreview>>

\* overlayUpdateHandler (part_000 1360-1373): the pending timeout is
\* cleared and a new one is set for this event
overlayUpdateHandler(p, id) == [p EXCEPT !.timeout = id]

\* the callback of the timeout (part_000 1374-1445) for the event of overlay
\* id, data.overlay being the store's record, with the video at currentTime
debouncedUpdate(p, st, currentTime) ==
    LET o == getOverlay(st, p.timeout)
        q == [p EXCEPT !.timeout = NoId]
    IN IF q.overlayId = NoId THEN q
       ELSE IF q.overlayId = o.id THEN [q EXCEPT !.config = configOf(o)]
       ELSE IF currentTime >= o.startTime /\ currentTime <= o.startTime + o.duration
       THEN [q EXCEPT !.overlayId = o.id, !.config = configOf(o)]
       ELSE q

\* OverlayState.updateOverlay with the OverlayManager subscribed (part_000
\* 1449): the store update, the sync, and the subscriber's handler
OverlayUpdated ==
    /\ \E k \in 1..Len(overlays), data \in UpdateData :
         /\ updateOverlay(overlays[k].id, data)
         /\ preview' = overlayUpdateHandler(preview, overlays[k].id)
    /\ UNCHANGED outsidePreview

\* the debounce timeout fires, DEBOUNCE_DELAY after the last event
DebounceTimeout ==
    /\ preview.timeout # NoId
    /\ \E currentTime \in Times :
         preview' = debouncedUpdate(preview, overlays, currentTime)
    /\ UNCHANGED <<storeVars, outsidePreview>>

\* no overlay applied yet (part_000 8), no timeout pending (part_000 1356)
PreviewInit ==
    preview = [overlayId |-> NoId, bound |-> NoId,
               config |-> [startTime |-> 0, duration |-> 0], timeout |-> NoId]

PreviewNext == AddOverlay \/ ApplyRealTimeOverlay \/ OverlayUpdated \/ DebounceTimeout

----------------------------------------------------------------------------
(* Time formatting: formatTime (src/base.js 6938-6949) and                 *)
(* OverlayUtils.formatTime (src/base.js 376-381).  A time is a number of   *)
(* milliseconds or one of NaN, Infinity, Undefined; a text is the sequence *)
(* of its characters.                                                      *)

\* JavaScript Infinity and undefined, below every time like Null and NaN
Infinity == -300
Undefined == -400

\* the whole seconds and the milliseconds of the times formatted
WholeSeconds == {0, 1, 59, 60, 61, 599, 600, 3599, 3600}
Fractions == {0, 1, 500, 999}
FormatInputs ==
    {sec * 1000 + f : sec \in WholeSeconds, f \in Fractions} \cup {NaN, Infinity, Undefined}

DigitChar == <<"0", "1", "2", "3", "4", "5", "6", "7", "8", "9">>

RECURSIVE decimal(_)
decimal(n) ==
    IF n < 10 THEN <<DigitChar[n + 1]>>
    ELSE decimal(n \div 10) \o <<DigitChar[(n % 10) + 1]>>

\* String(x) and `${x}` of a number
String(x) ==
    IF x = NaN THEN <<"N", "a", "N">>
    ELSE IF x = Infinity THEN <<"I", "n", "f", "i", "n", "i", "t", "y">>
    ELSE decimal(x)

\* str.padStart(targetLength, '0')
RECURSIVE padStart(_, _)
padStart(str, targetLength) ==
    IF Len(str) >= targetLength THEN str
    ELSE padStart(<<"0">> \o str, targetLength)

\* Math.floor(seconds / 60): undefined converts to NaN
wholeMinutes(seconds) ==
    IF seconds \in {NaN, Undefined} THEN NaN
    ELSE IF seconds = Infinity THEN Infinity
    ELSE seconds \div (60 * 1000)

\* seconds % 60, in milliseconds
remainingSeconds(seconds) ==
    IF seconds \in {NaN, Undefined, Infinity} THEN NaN
    ELSE seconds % (60 * 1000)

\* Math.floor of a number of milliseconds, in seconds
MathFloor(x) == IF x = NaN THEN NaN ELSE x \div 1000

\* Math.floor((x - Math.floor(x)) * 1000)
fractionMillis(x) == IF x = NaN THEN NaN ELSE x % 1000

\* formatTime (base.js 6938-6949)
formatTime(seconds, includeMilliseconds) ==
    LET minutes == wholeMinutes(seconds)
        remaining == remainingSeconds(seconds)
        baseTime == padStart(String(minutes), 2) \o <<":">>
                        \o padStart(String(MathFloor(remaining)), 2)
    IN IF includeMilliseconds
       THEN baseTime \o <<".">> \o padStart(String(fractionMillis(remaining)), 3)
       ELSE baseTime

\* !seconds || !isFinite(seconds) (base.js 377)
noFiniteTime(seconds) == seconds \in {0, NaN, Undefined, Infinity}

\* OverlayUtils.formatTime (base.js 376-381)
overlayUtilsFormatTime(seconds) ==
    IF noFiniteTime(seconds) THEN <<"0", ":", "0", "0">>
    ELSE String(wholeMinutes(seconds)) \o <<":">>
             \o padStart(String(MathFloor(remainingSeconds(seconds))), 2)

\* a call of formatTime; no statement of it can throw on a number or
\* undefined
FormatTime ==
    /\ \E seconds \in FormatInputs, includeMilliseconds \in BOOLEAN :
         fmt' = [fn |-> "formatTime", seconds |-> seconds,
                 result |-> formatTime(seconds, includeMilliseconds), threw |-> FALSE]
    /\ UNCHANGED outsideFormat

\* a call of OverlayUtils.formatTime
OverlayUtilsFormatTime ==
    /\ \E seconds \in FormatInputs :
         fmt' = [fn |-> "OverlayUtils.formatTime", seconds |-> seconds,
                 result |-> overlayUtilsFormatTime(seconds), threw |-> FALSE]
    /\ UNCHANGED outsideFormat

FormatInit ==
    fmt = [fn |-> "none", seconds |-> 0, result |-> <<>>, threw |-> FALSE]

FormatNext == FormatTime \/ OverlayUtilsFormatTime

----------------------------------------------------------------------------
(* Overlay confirmation, step by step: src/unnamed/part_000 239-541 and    *)
(* src/base.js 8292-8349. processOverlay is an async function: it runs to  *)
(* its next await, and each continuation is a step of its own.             *)

\* maxRetries (part_000 372)
maxRetries == 3

\* the states of the video element a check can meet
VideoStates ==
    [readyState : {0, 1, 4}, videoWidth : {0, 640}, videoHeight : {0, 360},
     duration : {NaN, Infinity, MaxTime}]

\* the values of the modal's start and duration fields
StartInputs == (0 - 1)..MaxTime
DurationInputs == 0..MaxTime

\* a >= b on a number a and a duration b that may be NaN or Infinity
jsGreaterEq(a, b) == b # NaN /\ b # Infinity /\ a >= b

\* the time check of processOverlay (part_000 260-263): TRUE when the values
\* are rejected
timesRejected(startTime, duration, videoDuration) ==
    startTime < 0 \/ jsGreaterEq(startTime, videoDuration) \/ duration <= 0

\* validateVideoForOverlay (base.js 8292-8349) on a video element with a
\* source: the object returned, a reason with valid false or the sizes with
\* valid true
validateVideoForOverlay(v) ==
    IF v.readyState < 1
    THEN [valid |-> FALSE, reason |-> "metadata"]
    ELSE IF v.videoWidth = 0 \/ v.videoHeight = 0
    THEN [valid |-> FALSE, reason |-> "dimensions"]
    ELSE IF v.duration = 0 \/ v.duration = NaN
    THEN [valid |-> FALSE, reason |-> "duration"]
    ELSE [valid |-> TRUE, reason |-> "none"]

\* ToBoolean of the value validateVideoForOverlay returns: an object
ToBoolean(result) == DOMAIN result # {}

\* OverlayManager.validateVideoState (part_000 502-541) with the global
\* validateVideoForOverlay that base.js 8847 installs; waited is the video
\* the polling of part_000 517-527 meets
validateVideoState(v, waited) ==
    LET isValid == validateVideoForOverlay(v) IN
    IF ~ToBoolean(isValid)
    THEN IF v.readyState < 2
         THEN ToBoolean(validateVideoForOverlay(waited))
         ELSE FALSE
    ELSE TRUE

\* the store, the projection and the id generator as one record
storeNow == [overlays |-> overlays, projection |-> projection, nextId |-> nextId]

\* the store variables after s
storeBecomes(s) ==
    /\ overlays' = s.overlays
    /\ projection' = s.projection
    /\ nextId' = s.nextId
    /\ segments' = renderOverlays(s.overlays)
    /\ projWriter' = "ui"
    /\ uiOp' = "create"

\* the catch block of processOverlayWithCanvas (part_000 398-413): the
\* fallback after the last attempt, the backoff wait before another one
catchAttempt(c) ==
    IF c.attempt = maxRetries
    THEN /\ confirmation' = [c EXCEPT !.pc = "returned", !.fallbacks = @ + 1]
         /\ storeBecomes(activateFallbackMode(storeNow, c.config.startTime, c.config.duration))
    ELSE /\ confirmation' = [c EXCEPT !.pc = "backoff"]
         /\ UNCHANGED <<overlays, projection, nextId, segments, projWriter, uiOp>>

\* processOverlay up to its first await (part_000 239-279): the fields are
\* read and checked, the modal closes, processOverlayWithCanvas is entered
ProcessOverlayBegin ==
    /\ confirmation.pc = "idle"
    /\ Len(overlays) + 2 <= MaxOverlays
    /\ nextId + 1 <= MaxIds
    /\ \E startTime \in StartInputs, duration \in DurationInputs, v \in VideoStates :
         /\ ~timesRejected(startTime, duration, v.duration)
         /\ confirmation' = [confirmation EXCEPT !.pc = "attempt", !.attempt = 0,
                                     !.config = [startTime |-> startTime, duration |-> duration],
                                     !.accepted = v.duration,
                                     !.validated = FALSE, !.image = "none"]
    /\ UNCHANGED <<overlays, projection, nextId, segments, projWriter, uiOp, outsideCanvas>>

\* one pass of the while loop up to the image's promise (part_000 375-391)
ValidateVideoState ==
    /\ confirmation.pc = "attempt"
    /\ \E v \in VideoStates, waited \in VideoStates :
         LET c == [confirmation EXCEPT !.attempt = @ + 1, !.video = v,
                                 !.validated = validateVideoState(v, waited)]
         IN IF c.validated
            THEN /\ confirmation' = [c EXCEPT !.pc = "awaitImage", !.image = "pending"]
                 /\ UNCHANGED <<overlays, projection, nextId, segments, projWriter, uiOp>>
            ELSE catchAttempt(c)
    /\ UNCHANGED outsideCanvas

\* the image loads: onload resolves the promise, applyRealTimeOverlay runs
\* and either activates the live overlay or throws (part_000 389-396)
ImageOnload ==
    /\ confirmation.pc = "awaitImage"
    /\ confirmation.image = "pending"
    /\ \E threw \in BOOLEAN :
         LET c == [confirmation EXCEPT !.image = "loaded"] IN
         IF threw
         THEN catchAttempt(c)
         ELSE /\ confirmation' = [c EXCEPT !.pc = "returned", !.activations = @ + 1]
              /\ UNCHANGED <<overlays, projection, nextId, segments, projWriter, uiOp>>
    /\ UNCHANGED outsideCanvas

\* the image fails to load: the promise of part_000 389-391 has no onerror
\* handler and no timeout
ImageOnerror ==
    /\ confirmation.pc = "awaitImage"
    /\ confirmation.image = "pending"
    /\ confirmation' = [confirmation EXCEPT !.image = "error"]
    /\ UNCHANGED <<overlays, projection, nextId, segments, projWriter, uiOp, outsideCanvas>>

\* the backoff timer of part_000 409-411 fires
BackoffTimeout ==
    /\ confirmation.pc = "backoff"
    /\ confirmation' = [confirmation EXCEPT !.pc = "attempt"]
    /\ UNCHANGED <<overlays, projection, nextId, segments, projWriter, uiOp, outsideCanvas>>

\* processOverlay after processOverlayWithCanvas returned (part_000 281-298)
ProcessOverlayResume ==
    /\ confirmation.pc = "returned"
    /\ confirmation' = [confirmation EXCEPT !.pc = "idle"]
    /\ storeBecomes(storeOverlayData(storeNow, confirmation.config.startTime, confirmation.config.duration))
    /\ UNCHANGED outsideCanvas

CanvasInit ==
    confirmation = [pc |-> "idle", attempt |-> 0,
              config |-> [startTime |-> 0, duration |-> 0], accepted |-> NaN,
              video |-> [readyState |-> 0, videoWidth |-> 0, videoHeight |-> 0,
                         duration |-> NaN],
              validated |-> FALSE, image |-> "none", activations |-> 0, fallbacks |-> 0]

CanvasNext ==
    \/ ProcessOverlayBegin
    \/ ValidateVideoState
    \/ ImageOnload
    \/ ImageOnerror
    \/ BackoffTimeout
    \/ ProcessOverlayResume

----------------------------------------------------------------------------
(* C1: after any sequence of addOverlay / updateOverlay / removeOverlay    *)
(* calls the projection holds exactly one entry for each id of the store,  *)
(* no entry for any other id, and each entry's start and duration equal    *)
(* the store record's startTime and duration.                              *)
ProjectionMatchesStore ==
    /\ \A k \in 1..Len(overlays) :
         Cardinality({j \in 1..Len(projection) : projection[j].id = overlays[k].id}) = 1
    /\ \A j \in 1..Len(projection) :
         \E k \in 1..Len(overlays) :
            /\ overlays[k].id = projection[j].id
            /\ projection[j].start = overlays[k].startTime
            /\ projection[j].duration = overlays[k].duration

\* a state reached by an add, an update that changed a time and a remove
ProjectionMatchesStoreWitness ==
    /\ Len(overlays) = 1
    /\ nextId = 3
    /\ overlays[1].id = 2
    /\ overlays[1].startTime = 2
    /\ Len(projection) = 1

----------------------------------------------------------------------------
(* C2: every change a batched setState accepted has been applied to the UI *)
(* once the animation-frame callback has run, whatever setState calls were *)
(* made in between.                                                        *)
BatchedChangesAppliedByFrame ==
    vsmHist.op = "frame" => vsm.owed = {}

----------------------------------------------------------------------------
(* C3: a setState call made from inside a running applyState is dropped:   *)
(* the manager ends exactly as it would have without the call, with the    *)
(* applying flag released; and the next independent, synchronous setState  *)
(* has every section it changed written to the UI.                         *)
NestedSetStateDropped ==
    /\ vsm = vsmShadow
    /\ ~vsm.isApplyingState
    /\ (vsmHist.afterNested /\ vsmHist.op = "setState" /\ vsmHist.outcome = "applied")
         => \A s \in vsmHist.changed :
               vsm.dom[s] = vsm.state[s] /\ ~vsm.dirtyFlags[s]

\* a frame's applyState made a nested setState call, and the synchronous
\* setState after it changed the playhead
NestedSetStateDroppedWitness ==
    /\ vsmHist.afterNested
    /\ vsmHist.op = "setState"
    /\ vsmHist.outcome = "applied"
    /\ vsmHist.changed = {"playhead"}
    /\ vsm.dom["playhead"] = "v1"

----------------------------------------------------------------------------
(* C4: a setState whose payload is identical to the payload of the         *)
(* setState just before it schedules and applies nothing and increments    *)
(* skippedUpdates by exactly one.                                          *)
IdenticalPayloadSkipped ==
    vsmHist.repeated => vsmHist.outcome = "skipped"

----------------------------------------------------------------------------
(* C5: whenever the controller has left selection mode by a cancel or by   *)
(* the load of the trimmed video, the playhead and the progress bar are    *)
(* visible again with the display, opacity and visibility they had before  *)
(* selection, and the playhead's drag handler is attached again.           *)
TimelineElementsRestored ==
    veHist.op \in {"cancelSelection", "trimLoaded"} =>
        /\ \A f \in {"display", "opacity", "visibility"} :
              /\ ve.playhead[f] = VeInitial("path").playhead[f]
              /\ ve.progress[f] = VeInitial("path").progress[f]
        /\ ve.dragListener

----------------------------------------------------------------------------
(* C6: a trim request is sent only with both bounds set, start < end,      *)
(* 0 <= start, end <= duration and end - start >= 0.5 s at the moment it   *)
(* is sent.                                                                *)
TrimRequestBoundsValid ==
    veHist.sent # "invalid"

----------------------------------------------------------------------------
(* C7: when a trim has completed successfully and the trimmed video is     *)
(* loaded, selection mode is not active.                                   *)
TrimSuccessEndsIdle ==
    veHist.op = "trimLoaded" => ~ve.isSelectionModeActive

----------------------------------------------------------------------------
(* C8: after every pointer move of a move gesture on an overlay of width   *)
(* w the overlay's left percentage is in [0, 100 - w].                     *)
MoveKeepsOverlayInside ==
    dragOp = "move" => 0 <= drag.left /\ drag.left <= 100 - drag.width

----------------------------------------------------------------------------
(* C9: after every pointer move of a resize gesture the overlay's width is *)
(* at least 1%, its left and right edges are in [0, 100], and the duration *)
(* written to the store is greater than 0.                                 *)
ResizeKeepsGeometryValid ==
    dragOp = "resize" =>
        /\ drag.width >= 1
        /\ 0 <= drag.left
        /\ drag.left + drag.width <= 100
        /\ drag.stored.duration > 0

----------------------------------------------------------------------------
(* C10: every UI action that creates, edits or deletes an overlay goes     *)
(* through the store's add/update/remove, and the projection is never      *)
(* written by UI code directly.                                            *)
ProjectionOnlyWrittenByStore ==
    projWriter # "ui"

----------------------------------------------------------------------------
(* C11: whenever both selection bounds are set, startTime <= endTime,      *)
(* after mark-end clicks, handle drags and body drags in any order.        *)
SelectionBoundsOrdered ==
    (ve.startTime \notin {Null, NaN} /\ ve.endTime \notin {Null, NaN})
        => ve.startTime <= ve.endTime

----------------------------------------------------------------------------
(* C12: an overlay drag or resize is atomic.  Escape pressed while it is   *)
(* in progress ends the interaction with the store record and the element  *)
(* as they were before it began; otherwise the interaction ends with its   *)
(* final store write.                                                      *)
InteractionAtomic ==
    /\ dragOp = "escape" =>
          /\ ~drag.isDragging
          /\ drag.stored = drag.before.stored
          /\ drag.left = drag.before.left
          /\ drag.width = drag.before.width
    /\ dragOp = "end" =>
          /\ ~drag.isDragging
          /\ drag.stored.startTime = drag.dataStart

----------------------------------------------------------------------------
(* C13: Escape pressed during a selection handle drag or body drag takes   *)
(* the drag's document listeners away at once: a pointer move after the    *)
(* Escape changes neither selection bound nor what the selection area      *)
(* shows.                                                                  *)
EscapeDetachesDragListeners ==
    [][(ve.cancelled /\ veHist'.op = "pointerMove") =>
          /\ ve'.startTime = ve.startTime
          /\ ve'.endTime = ve.endTime
          /\ ve'.selection = ve.selection]_vars

----------------------------------------------------------------------------
(* C15: a failed trim request is only notified: the step that handles the  *)
(* failure leaves startTime, endTime, selection mode and the Overlay Store *)
(* as they were, so that the same bounds can be sent again.                *)
TrimFailureKeepsSelection ==
    [][veHist'.op = "trimFailed" =>
          /\ ve'.startTime = ve.startTime
          /\ ve'.endTime = ve.endTime
          /\ ve'.isSelectionModeActive = ve.isSelectionModeActive
          /\ overlays' = overlays
          /\ projection' = projection]_vars

\* a trim of the selection 0.0-0.5 s has failed in selection mode, and the
\* selection passes validateSelection again
TrimFailureKeepsSelectionWitness ==
    /\ veHist.op = "trimFailed"
    /\ ve.isSelectionModeActive
    /\ ve.startTime = 0
    /\ ve.endTime = MinSelectionDuration
    /\ validateSelection(ve)

----------------------------------------------------------------------------
(* C16: an operation rejected by validation reports the error and leaves   *)
(* the project's questions and the marker map as they were before it.      *)
RejectedOperationChangesNothing ==
    [][qsHist'.outcome = "rejected" =>
          /\ qsHist'.reported
          /\ qs'.questions = qs.questions
          /\ qs'.currentMarkers = qs.currentMarkers]_vars

----------------------------------------------------------------------------
(* C17: the apply-in-progress flag is false whenever applyState is not     *)
(* executing, also after an apply function raised, and no setState is      *)
(* rejected by the flag's check because of an earlier failed apply.        *)
ApplyFlagReleased ==
    /\ ~vsm.isApplyingState
    /\ vsmHist.outcome # "rejected"

\* the operation before raised inside applyState, and this setState has been
\* accepted and applied
ApplyFlagReleasedWitness ==
    /\ vsmHist.afterRaised
    /\ vsmHist.op = "setState"
    /\ vsmHist.outcome = "applied"
    /\ vsm.dom["playhead"] = "v1"

----------------------------------------------------------------------------
(* C18: after every mutating operation of the Overlay Store, clear()       *)
(* included, the projection is reconciled with the records: it holds the   *)
(* ids of the store and no other, and it is empty when the store is.       *)
ProjectionReconciled ==
    /\ {projection[j].id : j \in 1..Len(projection)} = {overlays[k].id : k \in 1..Len(overlays)}
    /\ overlays = <<>> => projection = <<>>

----------------------------------------------------------------------------
(* C19: a successful updateOverlay invokes every callback subscribed to     *)
(* overlayUpdated at the time of the update exactly once per subscription,  *)
(* whatever the callbacks subscribe or unsubscribe during the delivery.     *)
EveryHandlerInvokedOnce ==
    delivery.op = "update" => (delivery.missed = {} /\ delivery.extra = {})

----------------------------------------------------------------------------
(* C20: when a callback subscribed to overlayUpdated throws, every other    *)
(* callback subscribed at the time still receives the event and the        *)
(* exception does not reach the caller of updateOverlay.                    *)
ThrowingHandlerIsolated ==
    (delivery.op = "update" /\ delivery.threw)
        => (delivery.missed = {} /\ ~delivery.escaped)

----------------------------------------------------------------------------
(* C14: after the pointer is released at the end of a move or resize, the  *)
(* dragging flag, the resizing flag, the interaction type and the resize   *)
(* handle reference are reset and the element carries no dragging, moving  *)
(* or resizing class and no live start/end time indicator.                 *)
InteractionStateCleared ==
    dragOp = "end" =>
        /\ ~drag.isDragging
        /\ ~drag.isResizing
        /\ drag.interactionType = "none"
        /\ drag.resizeHandle = "none"
        /\ drag.classes = {}
        /\ ~drag.indicators

----------------------------------------------------------------------------
(* C21: immediately after syncSelectedOverlayStates(X) for an attached     *)
(* element X the accessor getValidatedSelectedOverlay returns X and no     *)
(* other attached element carries the selected or the keyboard-active      *)
(* marker; after syncSelectedOverlayStates(null) no element carries either *)
(* marker and the accessor returns null.                                   *)
SyncedSelectionValidated ==
    selHist.op = "sync" =>
        /\ getValidatedSelectedOverlay(sel).returned = selHist.arg
        /\ sel.selected \cup sel.keyboardActive \subseteq {selHist.arg} \ {"null"}
        /\ selHist.arg # "null" => sel.selected = {selHist.arg}

\* a sync with an element that took the markers from another element
SyncedSelectionValidatedWitness ==
    /\ selHist.op = "sync"
    /\ selHist.arg # "null"
    /\ selHist.cleared # {}
    /\ getValidatedSelectedOverlay(sel).returned = selHist.arg

----------------------------------------------------------------------------
(* C22: while the selection is Active, after every handle-drag step the    *)
(* bounds are at least 0.1 s apart, for every pointer position and every   *)
(* prior pair of bounds with 0 <= startTime <= endTime <= duration.        *)
HandleDragKeepsGap ==
    [][(/\ ve.gesture \in {"start", "end"}
        /\ veHist'.op = "pointerMove"
        /\ ve.isSelectionModeActive
        /\ ve.duration # NaN
        /\ ve.startTime \in 0..ve.duration
        /\ ve.endTime \in ve.startTime..ve.duration)
          => ve'.endTime - ve'.startTime >= HandleGap]_vars

----------------------------------------------------------------------------
(* C23: while the selection is Active, a body-drag step keeps the length   *)
(* the range had at drag start and places the range at the position the    *)
(* pointer asks for, clamped to [0, duration]: a pointer past an end       *)
(* leaves the range flush against that end.                                *)
BodyDragClamped ==
    (/\ ve.gesture = "body"
     /\ ve.isSelectionModeActive
     /\ ve.duration # NaN
     /\ ve.startTime \in 0..ve.duration
     /\ ve.endTime \in ve.startTime..ve.duration
     /\ ve.grabDuration = ve.endTime - ve.startTime)
       => \A t \in clickTimes(ve) :
             LET e == moveHandler(ve, t)
                 last == ve.duration - ve.grabDuration
             IN /\ e.endTime - e.startTime = ve.grabDuration
                /\ e.startTime = IF t > last THEN last ELSE t

----------------------------------------------------------------------------
(* C24: Escape pressed with the selection in PendingEnd or Active ends in  *)
(* Idle with the bounds discarded, and an Enter pressed right after it     *)
(* calls no cut that would send a trim request.                            *)
EscapeDiscardsSelection ==
    [][(/\ veHist'.op = "cancelSelection"
        /\ ve.isSelectionModeActive
        /\ ve.startTime # Null)
          => /\ ~ve'.isSelectionModeActive
             /\ ve'.startTime = 0
             /\ ve'.endTime = 0
             /\ ~ve'.selection.display
             /\ ~(keyboardHandler(ve', "Enter") = "cut" /\ validateSelection(ve'))]_vars

\* Escape has cancelled a selection whose end had been marked
EscapeDiscardsSelectionWitness ==
    /\ veHist.op = "cancelSelection"
    /\ ve.interactive
    /\ ~ve.isSelectionModeActive
    /\ ve.startTime = 0
    /\ ve.endTime = 0

----------------------------------------------------------------------------
(* C25: on a 100 s video, from Idle, a double-click at 20% of the track    *)
(* and then a single click at 50% give the selection 20 s .. 50 s, neither *)
(* click seeks the video, and Enter then calls a cut that passes the       *)
(* validation and asks trimVideo for startTime 20 s and endTime 50 s.      *)
TwoClickSelection ==
    (/\ ve.duration = LongDuration
     /\ ~ve.isSelectionModeActive)
       => LET e1 == performSelection(ve, atPercent(ve, 20))
              e2 == markSelectionEnd(e1, atPercent(ve, 50))
          IN /\ clickDetector(ve, 2) = "performSelection"
             /\ clickDetector(e1, 1) = "markSelectionEnd"
             /\ e1.startTime = 200 /\ e1.endTime = Null
             /\ e2.startTime = 200 /\ e2.endTime = 500
             /\ keyboardHandler(e2, "Enter") = "cut"
             /\ validateSelection(e2)
             /\ trimRequest(e2) = [startTime |-> 200, endTime |-> 500]

\* the scenario has been played: Enter has sent the one request of the
\* selection 20 s .. 50 s
TwoClickSelectionWitness ==
    /\ ve.duration = LongDuration
    /\ veHist.op = "cut"
    /\ veHist.sent = "valid"
    /\ ve.trimCuts = 1 /\ ve.blobCuts = 0
    /\ trimRequest(ve) = [startTime |-> 200, endTime |-> 500]

----------------------------------------------------------------------------
(* C26: during a move interaction every pointer move writes startTime =    *)
(* (new left percentage / 100) x video duration to the dragged overlay's   *)
(* store record and leaves the record's duration as it was.                *)
MoveWritesStartTime ==
    [][dragOp' = "move" =>
          /\ drag'.stored.startTime = (drag'.left * playerDuration(drag)) \div 100
          /\ drag'.stored.duration = drag.stored.duration]_vars

\* a move on the loaded video has brought the segment to another position
MoveWritesStartTimeWitness ==
    /\ dragOp = "move"
    /\ drag.videoDuration # NaN
    /\ drag.left # drag.before.left
    /\ drag.stored.startTime # drag.before.stored.startTime
    /\ drag.stored.duration = drag.before.stored.duration

----------------------------------------------------------------------------
(* C27: when a move or resize interaction ends, the store record of the    *)
(* overlay has the startTime and the duration that the element's final     *)
(* left and width percentages give of the video duration.                  *)
FinalWriteMatchesGeometry ==
    dragOp = "end" =>
        /\ drag.stored.startTime = (drag.left * playerDuration(drag)) \div 100
        /\ drag.stored.duration = (drag.width * playerDuration(drag)) \div 100

\* a gesture on the loaded video that changed left and width has ended
FinalWriteMatchesGeometryWitness ==
    /\ dragOp = "end"
    /\ drag.videoDuration # NaN
    /\ drag.left # drag.before.left
    /\ drag.width # drag.before.width
    /\ drag.stored # drag.before.stored

----------------------------------------------------------------------------
(* C28: a question is added to the project or updated only if its marker   *)
(* map holds a time for each of the first totalAlternatives letters.       *)
SavedQuestionHasAllMarkers ==
    [][\A i \in 1..Len(qs'.questions) :
          (i > Len(qs.questions) \/ qs'.questions[i] # qs.questions[i])
              => \A a \in 1..qs'.totalAlternatives :
                     qs'.questions[i].markers[a] # NoMarker]_vars

----------------------------------------------------------------------------
(* C29: formatTime never throws, and for a non-finite or undefined input   *)
(* the text it returns is "0:00".                                          *)
FormatTimeFallback ==
    /\ ~fmt.threw
    /\ (fmt.fn # "none" /\ fmt.seconds \in {NaN, Infinity, Undefined})
          => fmt.result = <<"0", ":", "0", "0">>

----------------------------------------------------------------------------
(* C30: one confirmation of the overlay-image modal adds exactly one       *)
(* record to the store and exactly one entry to the projection, on the     *)
(* normal path and on the fallback path.                                   *)
OneConfirmationOneRecord ==
    [][uiOp' = "create" =>
          /\ Len(overlays') = Len(overlays) + 1
          /\ Len(projection') = Len(projection) + 1]_vars

----------------------------------------------------------------------------
(* C31: once the user has deleted an overlay from the timeline, neither    *)
(* the store nor the projection holds an entry for it, whatever store      *)
(* operations on other overlays follow.                                    *)
DeletedOverlayStaysGone ==
    \A id \in deleted :
        /\ \A k \in 1..Len(overlays) : overlays[k].id # id
        /\ \A j \in 1..Len(projection) : projection[j].id # id

----------------------------------------------------------------------------
(* C32: at most one trim request is in flight at any time: a second Enter  *)
(* or cut action before the previous request has completed sends no        *)
(* further request.                                                        *)
OneTrimRequestInFlight ==
    ve.trimCuts <= 1

----------------------------------------------------------------------------
(* C33: when cut resumes with a successful trim result, the result is      *)
(* loaded into the player only if the selection the trim was requested for *)
(* is still the current one.                                               *)
TrimResultRevalidated ==
    [][(veHist'.op = "trimSucceeded" /\ ve.followed # <<>> /\ ve'.followed = <<>>)
          => ve.followed[1] = trimRequest(ve)]_vars

----------------------------------------------------------------------------
(* C34: once a burst of store updates has stopped and the debounce timeout *)
(* has fired, the subscriber holds the final startTime and duration of the *)
(* overlay bound to the live preview, whatever updates to other overlays   *)
(* the burst contained.                                                    *)
DebouncedPreviewConverges ==
    (preview.bound # NoId /\ preview.timeout = NoId)
        => preview.config = configOf(getOverlay(overlays, preview.bound))

(* C35: the live overlay is activated only after a readiness check, and    *)
(* validateVideoState resolves to true only if the video's readyState is   *)
(* at least 2, its dimensions are positive and its duration is finite.     *)
ValidatedVideoIsReady ==
    /\ confirmation.activations > 0 => confirmation.validated
    /\ confirmation.validated =>
         /\ confirmation.video.readyState >= 2
         /\ confirmation.video.videoWidth > 0
         /\ confirmation.video.videoHeight > 0
         /\ confirmation.video.duration \notin {NaN, Infinity}

(* C36: within one applyState pass an apply step that fails never throws   *)
(* out of applyState and never keeps the remaining dirty sections from     *)
(* being applied and the dirty flags from being cleared: after every pass  *)
(* nothing was raised and no section is dirty.                             *)
ApplyPassNeverAborts ==
    (vsm.rendered \/ vsm.raised) =>
        /\ ~vsm.raised
        /\ \A s \in AllSections : ~vsm.dirtyFlags[s]

(* C37: after any sequence of selectOverlay calls and firings of their     *)
(* delayed timers at most one overlay element carries the selected or the  *)
(* keyboard-active class, and it is the one selected last.                 *)
OnlyLastSelectedMarked ==
    sel.selected \cup sel.keyboardActive \subseteq {sel.selectedOverlay} \ {"null"}

(* C38: after the pointer is released at the end of a playhead drag no     *)
(* drag is recorded as in progress, and a later pointer movement without a *)
(* new pointer-down moves nothing and raises no error.                     *)
PlayheadReleaseEndsDrag ==
    [][/\ dragOp' = "playheadEnd" => (~drag'.isDragging /\ ~drag'.isDraggingPlayhead)
       /\ dragOp' = "idleMove" => drag' = drag
       /\ ~drag'.threw]_vars

\* a pointer movement at rest, the playhead where a finished drag left it
PlayheadReleaseEndsDragWitness ==
    dragOp = "idleMove" /\ ~drag.isDragging /\ drag.playhead # 0 /\ ~drag.threw

ProcessOverlayWithCanvasReturns ==
    /\ [](confirmation.attempt <= maxRetries /\ confirmation.fallbacks <= 1)
    /\ [](confirmation.fallbacks = 1 => confirmation.attempt = maxRetries)
    /\ (confirmation.pc = "attempt") ~> (confirmation.pc = "returned")

----------------------------------------------------------------------------
Init ==
    StoreInit /\ VsmInit /\ VeInit /\ DragInit /\ QuestionInit /\ SelInit /\ FormatInit /\ PreviewInit /\ CanvasInit

\* a component that takes no step under a specification never leaves its
\* initial state: one of its initial states stands for all of them
InitAtRest == Init /\ ve.source = "path" /\ drag.left = 0 /\ drag.videoDuration = NaN
InitVe == Init /\ drag.left = 0 /\ drag.videoDuration = NaN
InitDrag == Init /\ ve.source = "path"

SpecStore == InitAtRest /\ [][StoreNext]_vars

SpecUI == InitAtRest /\ [][UiNext]_vars

SpecVsm == InitAtRest /\ [][VsmNext]_vars

SpecVe == InitVe /\ [][VeNext]_vars

SpecDrag == InitDrag /\ [][DragNext]_vars

SpecQuestion == InitAtRest /\ [][QuestionNext]_vars

SpecProject == InitAtRest /\ [][ProjectNext]_vars

SpecEvents == InitAtRest /\ [][EventsNext]_vars

SpecSel == InitAtRest /\ [][SelNext]_vars

SpecFormat == InitAtRest /\ [][FormatNext]_vars

SpecPreview == InitAtRest /\ [][PreviewNext]_vars

SpecCanvas == InitAtRest /\ [][CanvasNext]_vars

\* every timer, image event and continuation that is due eventually runs
SpecCanvasFair == SpecCanvas /\ WF_vars(CanvasNext)

\* overlays selected one after the other, their timers, and the track
\* rendered anew in between
SelectNext == SelectOverlay \/ KeyboardActiveTimer \/ RerenderOverlays

SpecSelect == InitAtRest /\ [][SelectNext]_vars

SpecPlayhead == InitDrag /\ [][PlayheadNext]_vars

\* the selection controller with the 100 s video
InitLong ==
    /\ StoreInit /\ VsmInit /\ VeLongInit /\ DragInit /\ QuestionInit /\ SelInit
    /\ FormatInit /\ PreviewInit /\ CanvasInit
    /\ drag.left = 0 /\ drag.videoDuration = NaN

\* clicks and keys on the timeline, and the cuts they start
LongNext == DoubleClick \/ Click \/ Escape \/ Delete \/ Cut \/ BlobResume \/ TrimResult

SpecLong == InitLong /\ [][LongNext]_vars

====
